---- MODULE Spec2Model ----
(***************************************************************************)
(* Model of the ledger core of bc4py_core: the mempool (UnconfirmedBuilder *)
(* over the gap-permitting vector Txs), and the orchestrator Chain         *)
(* (push_new_block, push_unconfirmed) over Tables, Confirmed and Account.  *)
(*                                                                         *)
(* Indexes are 0-based as in the code; a sequence v is read with At(v, i). *)
(* Option<usize>::None is NoneIdx, an empty slot of Txs is NoneTx.         *)
(* A handler has four outcomes: it returns Ok, returns Err, panics (the    *)
(* process aborts) or never returns.  The last two are terminal: `status`  *)
(* records them and no operation follows.                                  *)
(***************************************************************************)
EXTENDS Integers, Sequences, FiniteSets, TLC

VARIABLES
    tables,     \* Chain.tables : the committed content of the store
    confirmed,  \* Chain.confirmed : root_hash and the blocks above it
    txs,        \* Chain.unconfirmed.txs.0 : Vec<Option<Unconfirmed>>
    account,    \* Chain.account : the listening account
    best_chain, \* Chain.best_chain : block hashes, new to old
    opts,       \* TableOptions : tx_index, addr_index
    next_hash,  \* the hash the next pushed block gets
    forks,      \* number of blocks pushed on a parent that was not the tip
    status,     \* "ok" | "panic" | "diverge" | "io_error"
    lastOp,     \* the last call: name, arguments, result
    conflicted, \* history: the mempool transactions that shared an input with
                \* a transaction of a block when that block joined the best chain
    gen,        \* GenerateBuilder, and the GenerateFutures its callers hold
    wallet,     \* AccountBuilder: root_key, the accounts, their rows in Tables
    io          \* the last call of a decoder or encoder: input and result

vars == <<tables, confirmed, txs, account, best_chain, opts, next_hash, forks, status, lastOp,
          conflicted, gen, wallet, io>>

NoneIdx == 0 - 1
NoHash == 0

\* ------------------------------------------------------------------------
\* Addresses: derive_address(is_inner, index) of account 0, or external.
\* ------------------------------------------------------------------------
derive_address(is_inner, index) == [acct |-> 0, inner |-> is_inner, idx |-> index]
ExtAddr(k) == [acct |-> 0 - 1, inner |-> FALSE, idx |-> k]

\* ------------------------------------------------------------------------
\* Transactions (TxVerifiable): a fixed universe of non-coinbase transfers.
\*   G is the coinbase of the genesis block; its two outputs are spent by
\*   TxT / TxM (output 0, a double spend) and TxN (output 1); TxD spends TxT.
\* ------------------------------------------------------------------------
CoinbaseBase == 100
CoinbaseHash(blockhash) == CoinbaseBase + blockhash
GenesisHash == 1
G == CoinbaseHash(GenesisHash)

MkInput(h, vout) == [hash |-> h, vout |-> vout]
MkOutput(addr, amount) == [addr |-> addr, amount |-> amount]

get_size(inputs, outputs) == 39 + Len(inputs) * 33 + Len(outputs) * 33

MkTx(h, txtype, time, deadline, inputs, inputs_cache, outputs, gas_price, gas_amount) ==
    [hash |-> h, txtype |-> txtype, time |-> time, deadline |-> deadline,
     inputs |-> inputs, inputs_cache |-> inputs_cache, outputs |-> outputs,
     gas_price |-> gas_price, gas_amount |-> gas_amount]

Coinbase(blockhash) ==
    MkTx(CoinbaseHash(blockhash), "PoW", blockhash, blockhash + 10800, <<>>, <<>>,
         <<MkOutput(ExtAddr(0), 50), MkOutput(ExtAddr(1), 50)>>, 0, 0)

TxT == MkTx(1, "Transfer", 1, 10, <<MkInput(G, 0)>>, <<MkOutput(ExtAddr(0), 50)>>,
            <<MkOutput(derive_address(FALSE, 0), 40)>>, 1, 10)
TxM == MkTx(2, "Transfer", 2, 5, <<MkInput(G, 0)>>, <<MkOutput(ExtAddr(0), 50)>>,
            <<MkOutput(ExtAddr(2), 30)>>, 2, 10)
TxD == MkTx(3, "Transfer", 3, 10, <<MkInput(1, 0)>>, <<MkOutput(derive_address(FALSE, 0), 40)>>,
            <<MkOutput(ExtAddr(3), 30)>>, 1, 10)
TxN == MkTx(4, "Transfer", 4, 3, <<MkInput(G, 1)>>, <<MkOutput(ExtAddr(1), 50)>>,
            <<MkOutput(ExtAddr(4), 40)>>, 1, 10)

\* a transaction whose fee (50 - 40) is not gas_amount * gas_price (5 * 1)
TxF == MkTx(5, "Transfer", 5, 10, <<MkInput(G, 1)>>, <<MkOutput(ExtAddr(1), 50)>>,
            <<MkOutput(ExtAddr(4), 40)>>, 1, 5)

TxUniverse == {TxT, TxM, TxD, TxN}
\* the transactions the callers of Chain hand in
ChainTxs == {TxT, TxM, TxD}
\* the transactions handed to push_unconfirmed: nothing checks the fee of a
\* PyTx before PyChain.push_unconfirmed passes it on
UnconfirmedTxs == ChainTxs \cup {TxF}
TxHashes == {t.hash : t \in TxUniverse}
TxOf(h) == CHOOSE t \in TxUniverse : t.hash = h

is_coinbase(tx) == tx.txtype = "PoW" \/ tx.txtype = "PoS"

\* ------------------------------------------------------------------------
\* Sequence helpers (0-based access)
\* ------------------------------------------------------------------------
At(v, i) == v[i + 1]
SetAt(v, i, e) == [v EXCEPT ![i + 1] = e]
InsertAt(v, i, e) == SubSeq(v, 1, i) \o <<e>> \o SubSeq(v, i + 1, Len(v))
Range(v) == {v[i] : i \in 1..Len(v)}
\* let x = value; body: the value is computed where it is bound
Let(x, F(_)) == IF x = x THEN F(x) ELSE F(x)

\* the outcome of a call that returns a value: st is "ok", "err" or "panic"
Dec(st, v) == [st |-> st, v |-> v]

\* ------------------------------------------------------------------------
\* Unconfirmed: the meta data of one mempool entry; NoneTx is a None slot.
\* ------------------------------------------------------------------------
NoneTx == [hash |-> NoHash, depend_hashs |-> {}, price |-> 0, time |-> 0, deadline |-> 0, size |-> 0]
is_some(e) == e.hash # NoHash
is_none(e) == e.hash = NoHash

Filtered(v) == SelectSeq(v, is_some)

\* ------------------------------------------------------------------------
\* TxsIter
\* ------------------------------------------------------------------------
\* advance: `self.vec.get(index).is_some()` tests that index is in bounds;
\* it is true for a None slot too, so the `deleted element` branch is dead.
advance(index, vec) ==
    LET i == IF index = NoneIdx THEN 0 ELSE index + 1
    IN  IF i < Len(vec) THEN i ELSE NoneIdx

\* advance_back on a fresh iterator (index None); an iterator standing at
\* index 0 would compute 0 - 1 on a usize.
advance_back(index, vec) ==
    IF index = NoneIdx
    THEN IF 0 < Len(vec) THEN Len(vec) - 1 ELSE NoneIdx
    ELSE IF index = 0 THEN NoneIdx ELSE index - 1

\* get: unwraps the slot, so a None slot panics.
get(index, vec) ==
    IF index = NoneIdx THEN [kind |-> "none", tx |-> NoneTx]
    ELSE IF is_none(At(vec, index)) THEN [kind |-> "panic", tx |-> NoneTx]
    ELSE [kind |-> "some", tx |-> At(vec, index)]

\* `self.txs.streaming().next()`: a NEW iterator, advanced once.
streaming_next(vec) == get(advance(NoneIdx, vec), vec)
\* `self.txs.streaming().rev().next()`
streaming_rev_next(vec) == get(advance_back(NoneIdx, vec), vec)

\* ------------------------------------------------------------------------
\* Txs
\* ------------------------------------------------------------------------
exist(v, hash) == \E i \in 1..Len(v) : is_some(v[i]) /\ v[i].hash = hash

\* position among the live entries
position(v, hash) ==
    Let(Filtered(v), LAMBDA f :
        IF \A i \in 1..Len(f) : f[i].hash # hash THEN NoneIdx
        ELSE (CHOOSE i \in 1..Len(f) : f[i].hash = hash /\ \A j \in 1..(i - 1) : f[j].hash # hash) - 1)

len(v) == Len(Filtered(v))

\* raw index of the index-th live entry
RawOfLive(v, index) ==
    CHOOSE r \in 0..(Len(v) - 1) :
        is_some(At(v, r)) /\ Cardinality({q \in 0..(r - 1) : is_some(At(v, q))}) = index

\* remove: take the index-th live entry out and leave a None slot
remove(v, index) ==
    IF index < 0 \/ index >= len(v) THEN [st |-> "panic", txs |-> v, item |-> NoneTx]
    ELSE Let(RawOfLive(v, index), LAMBDA r :
             [st |-> "ok", txs |-> SetAt(v, r, NoneTx), item |-> At(v, r)])

PushNothing(v, value) == v

push(v, value) == Append(v, value)

Swap(v, a, b) == SetAt(SetAt(v, a, At(v, b)), b, At(v, a))

\* insert: raw_index is computed with position(), i.e. it is the index among
\* the live entries, and is then used as an index of the raw vector.
insert(v, index, element) ==
    IF index >= len(v)
    THEN IF 0 < index THEN [st |-> "panic", txs |-> v]
         ELSE [st |-> "ok", txs |-> Append(v, element)]
    ELSE Let(position(v, At(Filtered(v), index).hash), LAMBDA raw_index :
             IF 0 < raw_index /\ is_none(At(v, raw_index - 1))
             THEN [st |-> "ok", txs |-> SetAt(v, raw_index - 1, element)]
             ELSE IF 1 < raw_index /\ is_none(At(v, raw_index - 2))
             THEN [st |-> "ok", txs |-> Swap(SetAt(v, raw_index - 2, element), raw_index - 2, raw_index - 1)]
             ELSE IF raw_index + 1 < Len(v) /\ is_none(At(v, raw_index + 1))
             THEN [st |-> "ok", txs |-> Swap(SetAt(v, raw_index + 1, element), raw_index, raw_index + 1)]
             ELSE [st |-> "ok", txs |-> InsertAt(v, raw_index, element)])

\* ------------------------------------------------------------------------
\* UnconfirmedBuilder
\* ------------------------------------------------------------------------
\* Every loop of the builder is written
\*     while let Some(tx) = self.txs.streaming().next() { body }
\* which builds a new iterator at each evaluation of the loop head: the body
\* always sees the first slot of the vector (the last one with .rev()).  A
\* body that neither breaks nor returns on that slot is entered again with
\* the same slot for ever.
Res(st, v, ret) == [st |-> st, txs |-> v, ret |-> ret]

have_the_tx(v, hash) == exist(v, hash)

DependHashs(tx) == {tx.inputs[i].hash : i \in 1..Len(tx.inputs)}

\* the entry push_new_tx builds from a transaction
Entry(tx) ==
    [hash |-> tx.hash, depend_hashs |-> DependHashs(tx), price |-> tx.gas_price,
     time |-> tx.time, deadline |-> tx.deadline, size |-> get_size(tx.inputs, tx.outputs)]

RECURSIVE remove_with_depend_myself(_, _, _)
RECURSIVE DependLoop(_, _, _)
\* the `check depend_hashs` loop of remove_with_depend_myself
DependLoop(v, hash, deleted) ==
    Let(streaming_next(v), LAMBDA n :
        CASE n.kind = "none" -> [st |-> "ok", txs |-> v, deleted |-> deleted]
          [] n.kind = "panic" -> [st |-> "panic", txs |-> v, deleted |-> deleted]
          [] OTHER ->
                IF hash \in n.tx.depend_hashs
                THEN Let(remove_with_depend_myself(v, n.tx.hash, deleted), LAMBDA r :
                         IF r.st # "ok" THEN r ELSE DependLoop(r.txs, hash, r.deleted))
                ELSE [st |-> "diverge", txs |-> v, deleted |-> deleted])

remove_with_depend_myself(v, hash, deleted) ==
    Let(position(v, hash), LAMBDA delete_index :
        IF delete_index = NoneIdx
        THEN [st |-> "ok", txs |-> v, deleted |-> deleted]
        ELSE Let(remove(v, delete_index), LAMBDA rm :
                 DependLoop(rm.txs, hash, Append(deleted, rm.item))))

\* `most high position depend index` loop
DependIndexLoop(v, unconfirmed) ==
    Let(streaming_next(v), LAMBDA n :
        CASE n.kind = "none" -> [st |-> "ok", depend_index |-> NoneIdx]
          [] n.kind = "panic" -> [st |-> "panic", depend_index |-> NoneIdx]
          [] OTHER ->
                IF unconfirmed.hash = n.tx.hash
                THEN [st |-> "err", depend_index |-> NoneIdx]
                ELSE [st |-> "diverge", depend_index |-> NoneIdx])

\* `most low position required index` loop: its body has no exit
RequiredIndexLoop(v, unconfirmed, depend_index) ==
    Let(streaming_rev_next(v), LAMBDA n :
        CASE n.kind = "none" -> [st |-> "ok", required_index |-> NoneIdx, disturbs |-> <<>>]
          [] n.kind = "panic" -> [st |-> "panic", required_index |-> NoneIdx, disturbs |-> <<>>]
          [] OTHER -> [st |-> "diverge", required_index |-> NoneIdx, disturbs |-> <<>>])

\* the relative rule: the new entry goes before tx
Beats(unconfirmed, tx) ==
    ~(unconfirmed.price < tx.price) /\ ~(unconfirmed.price = tx.price /\ unconfirmed.time >= tx.time)

\* `find best relative condition` loop
BestIndexLoop(v, unconfirmed, depend_index, required_index) ==
    Let(streaming_next(v), LAMBDA n :
        CASE n.kind = "none" -> [st |-> "ok", best_index |-> NoneIdx]
          [] n.kind = "panic" -> [st |-> "panic", best_index |-> NoneIdx]
          [] OTHER ->
                Let(position(v, n.tx.hash), LAMBDA index :
                    IF \/ (depend_index # NoneIdx /\ index <= depend_index)
                       \/ (required_index # NoneIdx /\ index > required_index)
                       \/ ~Beats(unconfirmed, n.tx)
                    THEN [st |-> "diverge", best_index |-> NoneIdx]
                    ELSE [st |-> "ok", best_index |-> index]))

RECURSIVE RemoveEach(_, _, _)
\* for hash in hashs { self.remove_with_depend_myself(hash, &mut deleted) }
RemoveEach(v, hashs, deleted) ==
    IF Len(hashs) = 0 THEN [st |-> "ok", txs |-> v, deleted |-> deleted]
    ELSE Let(remove_with_depend_myself(v, Head(hashs), deleted), LAMBDA r :
             IF r.st # "ok" THEN r ELSE RemoveEach(r.txs, Tail(hashs), r.deleted))

RECURSIVE push_unconfirmed(_, _)
RECURSIVE PushEach(_, _)
\* for tx in deleted { assert!(self.push_unconfirmed(tx).is_ok()) }
PushEach(v, entries) ==
    IF Len(entries) = 0 THEN Res("ok", v, NoneIdx)
    ELSE Let(push_unconfirmed(v, Head(entries)), LAMBDA r :
             IF r.st = "err" THEN Res("panic", r.txs, NoneIdx)
             ELSE IF r.st # "ok" THEN r
             ELSE PushEach(r.txs, Tail(entries)))

\* the `exception: with disturbs` branch of push_unconfirmed
PushWithDisturbs(v, unconfirmed, disturbs) ==
    Let(RemoveEach(v, disturbs, <<>>), LAMBDA rm :
        IF rm.st # "ok" THEN Res(rm.st, v, NoneIdx)
        ELSE Let(PushEach(rm.txs, <<unconfirmed>> \o rm.deleted), LAMBDA p :
                 IF p.st # "ok" THEN Res(p.st, v, NoneIdx)
                 ELSE Res("ok", p.txs, position(p.txs, unconfirmed.hash))))

\* the `normal: without disturbs` branch of push_unconfirmed
PushWithoutDisturbs(v, unconfirmed, depend_index, required_index) ==
    Let(BestIndexLoop(v, unconfirmed, depend_index, required_index), LAMBDA b :
        IF b.st # "ok" THEN Res(b.st, v, NoneIdx)
        ELSE Let(IF b.best_index = NoneIdx THEN required_index ELSE b.best_index, LAMBDA best_index :
                 IF best_index # NoneIdx
                 THEN Let(insert(v, best_index, unconfirmed), LAMBDA i : Res(i.st, i.txs, best_index))
                 ELSE Res("ok", push(v, unconfirmed), len(v))))

push_unconfirmed(v, unconfirmed) ==
    Let(DependIndexLoop(v, unconfirmed), LAMBDA d :
        IF d.st # "ok" THEN Res(d.st, v, NoneIdx)
        ELSE Let(RequiredIndexLoop(v, unconfirmed, d.depend_index), LAMBDA q :
                 IF q.st # "ok" THEN Res(q.st, v, NoneIdx)
                 ELSE IF 0 < Len(q.disturbs)
                 THEN PushWithDisturbs(v, unconfirmed, q.disturbs)
                 ELSE PushWithoutDisturbs(v, unconfirmed, d.depend_index, q.required_index)))

\* a push_new_tx whose scans end: the entry is appended
PushNewTxAppends(v, tx) == Res("ok", push(v, Entry(tx)), len(v))

push_new_tx(v, tx) == push_unconfirmed(v, Entry(tx))

\* remove_many: the roots and their dependents are taken out, the roots are
\* dropped from `deleted`, the rest is pushed back.
remove_many(v, hashs) ==
    Let(RemoveEach(v, hashs, <<>>), LAMBDA rm :
        IF rm.st # "ok" THEN Res(rm.st, v, NoneIdx)
        ELSE Let(PushEach(rm.txs, SelectSeq(rm.deleted, LAMBDA e : e.hash \notin Range(hashs))),
                 LAMBDA p : IF p.st # "ok" THEN Res(p.st, v, NoneIdx) ELSE Res("ok", p.txs, NoneIdx)))

\* remove_by_duplicate_inputs: for each input the search loop has no exit,
\* so it ends only on an empty vector; read_fails is an I/O error of
\* read_txcache, tx_cache the hashes Tables holds.
DuplicateSearch(v, input, tx_cache, read_fails) ==
    Let(streaming_next(v), LAMBDA n :
        CASE n.kind = "none" -> "ok"
          [] n.kind = "panic" -> "panic"
          [] OTHER ->
                IF input.hash \in n.tx.depend_hashs /\ read_fails THEN "err"
                ELSE IF input.hash \in n.tx.depend_hashs /\ n.tx.hash \notin tx_cache THEN "panic"
                ELSE "diverge")

remove_by_duplicate_inputs(v, tx_cache, inputs, read_fails) ==
    IF Len(inputs) = 0 THEN remove_many(v, <<>>)
    ELSE Let(DuplicateSearch(v, inputs[1], tx_cache, read_fails), LAMBDA s :
             IF s # "ok" THEN Res(s, v, NoneIdx) ELSE remove_many(v, <<>>))

\* remove_expired_txs: [st, txs, deleted]
RECURSIVE remove_expired_txs(_, _, _)
remove_expired_txs(v, deadline, deleted) ==
    Let(streaming_next(v), LAMBDA n :
        CASE n.kind = "none" -> [st |-> "ok", txs |-> v, deleted |-> deleted]
          [] n.kind = "panic" -> [st |-> "panic", txs |-> v, deleted |-> deleted]
          [] OTHER ->
                IF n.tx.deadline < deadline
                THEN Let(remove_with_depend_myself(v, n.tx.hash, deleted), LAMBDA r :
                         IF r.st # "ok" THEN r ELSE remove_expired_txs(r.txs, deadline, r.deleted))
                ELSE [st |-> "diverge", txs |-> v, deleted |-> deleted])

\* ---- the scans that leave the mempool as it is: [st, ret] ----
Ask(st, ret) == [st |-> st, ret |-> ret]

\* get_size: `size += unconfirmed.size` for slot 0 again and again, until
\* the u32 overflows where the build checks that
unconfirmed_get_size(v, overflow_checks) ==
    Let(streaming_next(v), LAMBDA n :
        CASE n.kind = "none" -> Ask("ok", 0)
          [] n.kind = "panic" -> Ask("panic", 0)
          [] OTHER -> IF overflow_checks /\ n.tx.size > 0 THEN Ask("panic", 0) ELSE Ask("diverge", 0))

\* input_already_used
input_already_used(v, input, tx_cache, read_fails) ==
    Let(streaming_next(v), LAMBDA n :
        CASE n.kind = "none" -> Ask("ok", FALSE)
          [] n.kind = "panic" -> Ask("panic", FALSE)
          [] OTHER ->
                IF input.hash \in n.tx.depend_hashs /\ read_fails THEN Ask("err", FALSE)
                ELSE IF input.hash \in n.tx.depend_hashs /\ n.tx.hash \notin tx_cache THEN Ask("panic", FALSE)
                ELSE IF input.hash \in n.tx.depend_hashs /\ input \in Range(TxOf(n.tx.hash).inputs)
                THEN Ask("ok", TRUE)
                ELSE Ask("diverge", FALSE))

\* get_size_limit_list: the hash of slot 0 is pushed until the sizes added
\* reach maxsize
get_size_limit_list(v, maxsize) ==
    Let(streaming_next(v), LAMBDA n :
        CASE n.kind = "none" -> Ask("ok", <<>>)
          [] n.kind = "panic" -> Ask("panic", <<>>)
          [] OTHER ->
                IF n.tx.size = 0 THEN Ask("diverge", <<>>)
                ELSE Ask("ok", [i \in 1..(IF maxsize = 0 THEN 0 ELSE (maxsize - 1) \div n.tx.size) |-> n.tx.hash]))

\* an Option<TxOutput>
NoOutput == [addr |-> ExtAddr(0), amount |-> 0 - 1]

\* one pass of the body of find_output_of_input over slot 0: [st, ret]
FindBody(tx, input, output) ==
    Let(IF input.hash \in tx.depend_hashs /\ input \in Range(TxOf(tx.hash).inputs) THEN NoOutput ELSE output,
        LAMBDA taken :
        IF tx.hash # input.hash THEN Ask("ok", taken)
        ELSE IF input.vout >= Len(TxOf(tx.hash).outputs) THEN Ask("err", taken)
        ELSE Ask("ok", At(TxOf(tx.hash).outputs, input.vout)))

\* find_output_of_input: ret is the output it leaves
find_output_of_input(v, input, output, ignore, tx_cache, read_fails) ==
    Let(streaming_next(v), LAMBDA n :
        CASE n.kind = "none" -> Ask("ok", output)
          [] n.kind = "panic" -> Ask("panic", output)
          [] OTHER ->
                IF ignore /\ output # NoOutput THEN Ask("ok", output)
                ELSE IF (input.hash \in n.tx.depend_hashs \/ n.tx.hash = input.hash) /\ read_fails
                THEN Ask("err", output)
                ELSE IF (input.hash \in n.tx.depend_hashs \/ n.tx.hash = input.hash)
                        /\ n.tx.hash \notin tx_cache
                THEN Ask("panic", output)
                ELSE Let(FindBody(n.tx, input, output), LAMBDA b :
                         IF b.st # "ok" THEN b
                         ELSE IF ignore /\ b.ret # NoOutput THEN b
                         ELSE Ask("diverge", b.ret)))

\* is_unused_input: ret is "None" or "SomeFalse"
is_unused_input(v, input, except_hash) ==
    Let(streaming_next(v), LAMBDA n :
        CASE n.kind = "none" -> Ask("ok", "None")
          [] n.kind = "panic" -> Ask("panic", "None")
          [] OTHER ->
                IF n.tx.hash = except_hash THEN Ask("diverge", "None")
                ELSE IF input.hash \in n.tx.depend_hashs THEN Ask("ok", "SomeFalse")
                ELSE Ask("diverge", "None"))

\* ------------------------------------------------------------------------
\* Tables: the namespaces the orchestrator writes.  A TableCursor is a copy
\* of the committed content that the handler updates; commit makes it the
\* content, dropping it (an early return) leaves the content as it was.
\* ------------------------------------------------------------------------
EmptyTables ==
    [block |-> {}, block_index |-> {}, tx_cache |-> {}, tx_index |-> {},
     utxo_index |-> {}, addr_index |-> {}, temp_movement |-> {}, movement |-> {},
     account_state |-> <<>>]

TxHashesOf(txlist) == {txlist[i].hash : i \in 1..Len(txlist)}

\* write_block: the block, and its non-coinbase transactions into tx_cache
write_block(cur, block, txlist) ==
    [cur EXCEPT !.block = @ \cup {block},
                !.tx_cache = @ \cup {t \in TxHashesOf(txlist) : t # block.txs_hash[1]}]

read_txcache(t, txhash) == txhash \in t.tx_cache
write_txcache(cur, tx) == [cur EXCEPT !.tx_cache = @ \cup {tx.hash}]
remove_from_txcache(cur, txhash) == [cur EXCEPT !.tx_cache = @ \ {txhash}]
write_block_index(cur, height, hash) ==
    [cur EXCEPT !.block_index = @ \cup {[height |-> height, hash |-> hash]}]

\* write_utxo_index: remove the inputs, insert the outputs
write_utxo_index(cur, tx) ==
    [cur EXCEPT !.utxo_index =
        (@ \ Range(tx.inputs)) \cup {MkInput(tx.hash, i - 1) : i \in 1..Len(tx.outputs)}]

remove_addr_index(cur, addr, input) ==
    [cur EXCEPT !.addr_index = @ \ {[addr |-> addr, input |-> input]}]
write_addr_index(cur, output, txhash, index) ==
    [cur EXCEPT !.addr_index = @ \cup {[addr |-> output.addr, input |-> MkInput(txhash, index)]}]
write_tx_index(cur, blockhash, indexed_txs) ==
    [cur EXCEPT !.tx_index = @ \cup {[blockhash |-> blockhash, txs |-> indexed_txs]}]

read_temporary_movement(t, hash) == {m \in t.temp_movement : m.hash = hash}
write_temporary_movement(cur, movement) ==
    [cur EXCEPT !.temp_movement = {m \in @ : m.hash # movement.hash} \cup {movement}]
\* update_movement_status: stamp (height, position) and promote to movement
update_movement_status(cur, hash, height, pos) ==
    [cur EXCEPT !.temp_movement = {m \in @ : m.hash # hash},
                !.movement = @ \cup {[hash |-> m.hash, delta |-> m.delta,
                                      height |-> height, position |-> pos] :
                                     m \in read_temporary_movement(cur, hash)}]
write_account_state(cur, acc) == [cur EXCEPT !.account_state = <<acc>>]

\* ------------------------------------------------------------------------
\* Confirmed: the blocks above root_hash
\* ------------------------------------------------------------------------
GENESIS_PREVIOUS_HASH == 0 - 1

MkBlock(hash, previous_hash, height, flag, score, txs_hash) ==
    [hash |-> hash, previous_hash |-> previous_hash, height |-> height,
     flag |-> flag, score |-> score, txs_hash |-> txs_hash]

ConfirmedNew(root_hash) == [root_hash |-> root_hash, blocks |-> <<>>]

Known(c, hash) == hash \in DOMAIN c.blocks
get_block_ref(c, hash) == c.blocks[hash]

SetMax(S) == CHOOSE x \in S : \A y \in S : y <= x
SetMin(S) == CHOOSE x \in S : \A y \in S : x <= y

\* a set of keys in key order (the order of read_txcache_iter, read_account_iter)
SeqOfSet(S) ==
    LET RECURSIVE Build(_)
        Build(R) == IF R = {} THEN <<>> ELSE <<SetMin(R)>> \o Build(R \ {SetMin(R)})
    IN  Build(S)
Reverse(s) == [i \in 1..Len(s) |-> s[Len(s) + 1 - i]]

\* the blocks no block builds on
Leaves(c) == DOMAIN c.blocks \ {c.blocks[h].previous_hash : h \in DOMAIN c.blocks}

RECURSIVE PathUp(_, _)
\* the hashes from `hash` back to the first block above the root, new to old
PathUp(c, hash) ==
    IF Known(c, hash) THEN <<hash>> \o PathUp(c, c.blocks[hash].previous_hash) ELSE <<>>

RECURSIVE SumFrom(_, _, _)
SumFrom(c, path, i) ==
    IF i > Len(path) THEN 0 ELSE c.blocks[path[i]].score + SumFrom(c, path, i + 1)
SumOfScores(c, path) == SumFrom(c, path, 1)

RECURSIVE Before(_, _)
\* a and b are chains, old to new: at their first difference a has the
\* smaller block hash
Before(a, b) ==
    IF Len(a) = 0 THEN TRUE
    ELSE IF Len(b) = 0 THEN FALSE
    ELSE IF Head(a) # Head(b) THEN Head(a) < Head(b)
    ELSE Before(Tail(a), Tail(b))

\* the paths of `paths` with the highest sum of scores
TopPaths(c, paths) ==
    Let(SetMax({SumOfScores(c, p) : p \in paths}), LAMBDA top :
        {p \in paths : SumOfScores(c, p) = top})

\* get_best_chain, new to old: from the root, the child with the highest sum
\* of scores down to a leaf is taken again and again, a tie going to the
\* smallest hash; that is the leaf path with the highest sum, the first by
\* Before among equals.
get_best_chain(c) ==
    IF DOMAIN c.blocks = {} THEN <<>>
    ELSE Let(TopPaths(c, {PathUp(c, l) : l \in Leaves(c)}), LAMBDA tops :
             CHOOSE p \in tops : \A q \in tops : Before(Reverse(p), Reverse(q)))

RECURSIVE CommonLen(_, _)
CommonLen(a, b) ==
    IF Len(a) = 0 \/ Len(b) = 0 \/ Head(a) # Head(b) THEN 0
    ELSE 1 + CommonLen(Tail(a), Tail(b))

\* the two chains, old to new, less their first k blocks, each newest first
ForkInfo(c, before, after, k) ==
    [confirmed |-> c,
     revert |-> Reverse(SubSeq(before, k + 1, Len(before))),
     apply |-> Reverse(SubSeq(after, k + 1, Len(after)))]

\* push_new_block: insert, and return the old and the new best chain less
\* their common prefix, each newest to root
ConfirmedPush(c, block) ==
    Let(Reverse(get_best_chain(c)), LAMBDA before :
        Let([c EXCEPT !.blocks = @ @@ (block.hash :> block)], LAMBDA c2 :
            Let(Reverse(get_best_chain(c2)), LAMBDA after :
                ForkInfo(c2, before, after, CommonLen(before, after)))))

\* the root moves to the n-th block of best (old to new); the blocks that
\* do not descend from it leave Confirmed
Truncated(c, best, n) ==
    IF n <= 0 THEN [confirmed |-> c, finalized |-> <<>>]
    ELSE [confirmed |-> [root_hash |-> best[n],
                         blocks |-> [h \in {x \in DOMAIN c.blocks :
                                              x # best[n] /\ best[n] \in Range(PathUp(c, x))}
                                     |-> c.blocks[h]]],
          finalized |-> [i \in 1..n |-> c.blocks[best[i]]]]

\* truncate_old_blocks: the best chain less its keep_recent newest blocks is
\* finalized, old to new
truncate_old_blocks(c, keep_finalized, keep_recent) ==
    Let(Reverse(get_best_chain(c)), LAMBDA best : Truncated(c, best, Len(best) - keep_recent))

\* ------------------------------------------------------------------------
\* Account: listen_inner and listen_outer hold the derived addresses of
\* index 0..len-1, so each list is modelled by its length.
\* ------------------------------------------------------------------------
PRE_FETCH_ADDR_LEN == 25

AccountNew ==
    [unused_index |-> 0, listen_inner |-> PRE_FETCH_ADDR_LEN, listen_outer |-> PRE_FETCH_ADDR_LEN,
     balance |-> 0, changed |-> FALSE]

InInner(acc, addr) == addr.acct = 0 /\ addr.inner /\ addr.idx < acc.listen_inner
InOuter(acc, addr) == addr.acct = 0 /\ ~addr.inner /\ addr.idx < acc.listen_outer

is_account_address(acc, addr) == InInner(acc, addr) \/ InOuter(acc, addr)

\* check_and_expand_listen: keep PRE_FETCH_ADDR_LEN addresses after a seen one
check_and_expand_listen(acc, addr) ==
    IF InInner(acc, addr)
    THEN [found |-> "inner",
          account |-> IF acc.listen_inner < addr.idx + PRE_FETCH_ADDR_LEN
                      THEN [acc EXCEPT !.listen_inner = addr.idx + PRE_FETCH_ADDR_LEN, !.changed = TRUE]
                      ELSE acc]
    ELSE IF InOuter(acc, addr)
    THEN [found |-> "outer",
          account |-> IF acc.listen_outer < addr.idx + PRE_FETCH_ADDR_LEN
                      THEN [acc EXCEPT !.listen_outer = addr.idx + PRE_FETCH_ADDR_LEN, !.changed = TRUE]
                      ELSE acc]
    ELSE [found |-> "none", account |-> acc]

update_unused_index(acc, addr) ==
    IF InOuter(acc, addr) /\ acc.unused_index <= addr.idx
    THEN [acc EXCEPT !.unused_index = addr.idx + 1, !.changed = TRUE]
    ELSE acc

update_all_account_status(acc, cur) ==
    IF acc.changed
    THEN [account |-> [acc EXCEPT !.changed = FALSE],
          cur |-> write_account_state(cur, [acc EXCEPT !.changed = FALSE])]
    ELSE [account |-> acc, cur |-> cur]

RECURSIVE SumAmount(_)
SumAmount(outputs) == IF Len(outputs) = 0 THEN 0 ELSE Head(outputs).amount + SumAmount(Tail(outputs))

RECURSIVE ListenEach(_, _, _, _)
\* the `inputs` and `outputs` loops of update_by_tx: [account, delta, moved]
ListenEach(acc, outputs, sign, m) ==
    IF Len(outputs) = 0 THEN [account |-> acc, delta |-> m.delta, moved |-> m.moved]
    ELSE Let(check_and_expand_listen(acc, Head(outputs).addr), LAMBDA c :
             IF c.found = "none" THEN ListenEach(acc, Tail(outputs), sign, m)
             ELSE ListenEach(update_unused_index(c.account, Head(outputs).addr), Tail(outputs), sign,
                             [delta |-> m.delta + sign * Head(outputs).amount, moved |-> TRUE]))

update_by_tx(acc, tx, cur) ==
    IF SumAmount(tx.inputs_cache) - SumAmount(tx.outputs) # tx.gas_amount * tx.gas_price
    THEN [st |-> "panic", account |-> acc, cur |-> cur]
    ELSE Let(ListenEach(acc, tx.inputs_cache, 0 - 1, [delta |-> 0, moved |-> FALSE]), LAMBDA i :
         Let(ListenEach(i.account, tx.outputs, 1, [delta |-> i.delta, moved |-> i.moved]), LAMBDA o :
         Let(update_all_account_status(
                 o.account,
                 IF o.moved THEN write_temporary_movement(cur, [hash |-> tx.hash, delta |-> o.delta])
                 ELSE cur), LAMBDA u :
             [st |-> "ok", account |-> u.account, cur |-> u.cur])))

RECURSIVE FinalizeMovements(_, _, _, _)
\* the loop of finalize_block over (position, hash)
FinalizeMovements(acc, cur, block, pos) ==
    IF pos >= Len(block.txs_hash) THEN [account |-> acc, cur |-> cur]
    ELSE Let(read_temporary_movement(cur, At(block.txs_hash, pos)), LAMBDA ms :
             IF ms = {} THEN FinalizeMovements(acc, cur, block, pos + 1)
             ELSE FinalizeMovements(
                      [acc EXCEPT !.balance = @ + (CHOOSE x \in ms : TRUE).delta, !.changed = TRUE],
                      update_movement_status(cur, At(block.txs_hash, pos), block.height, pos),
                      block, pos + 1))

finalize_block(acc, block, cur) ==
    Let(FinalizeMovements(acc, cur, block, 0), LAMBDA f : update_all_account_status(f.account, f.cur))

\* ------------------------------------------------------------------------
\* AccountBuilder: its accounts are derived from the root key in the order
\* of their ids, so an account is modelled by its id, its visible flag and
\* its changed flag; rows are the accounts as last written to Tables.
\* ------------------------------------------------------------------------
PRE_FETCH_ACCOUNT_LEN == 20
InitialLen == 50

MkAccount(account_id, visible, changed) == [changed |-> changed, account_id |-> account_id, visible |-> visible]

\* cur.write_account_state(account.account_id, &account.to_bytes())
WriteRow(rows, a) == {r \in rows : r.account_id # a.account_id} \cup {[account_id |-> a.account_id, visible |-> a.visible]}

\* update_all_account_status of the builder
WriteChanged(accounts, rows) ==
    [rows |-> {r \in rows : \A i \in 1..Len(accounts) : accounts[i].changed => accounts[i].account_id # r.account_id}
              \cup {[account_id |-> accounts[i].account_id, visible |-> accounts[i].visible]
                    : i \in {j \in 1..Len(accounts) : accounts[j].changed}},
     accounts |-> [i \in 1..Len(accounts) |-> [accounts[i] EXCEPT !.changed = FALSE]]]

\* AccountBuilder::new: initial_len hidden accounts, all written
AccountBuilderNew ==
    [ret |-> "Ok", rows |-> {[account_id |-> i - 1, visible |-> FALSE] : i \in 1..InitialLen},
     accounts |-> [i \in 1..InitialLen |-> MkAccount(i - 1, FALSE, FALSE)],
     root_key |-> TRUE, op |-> "new"]

\* restore_from_tables: the accounts of read_account_iter, in key order
restore_from_tables(rows, sk) ==
    Let(SeqOfSet({r.account_id : r \in rows}), LAMBDA ids :
        [rows |-> rows,
         accounts |-> [i \in 1..Len(ids) |->
                         MkAccount(ids[i], (CHOOSE r \in rows : r.account_id = ids[i]).visible, FALSE)],
         root_key |-> sk])

RECURSIVE expand_account_capacity(_, _)
\* expand_account_capacity, n times: a hidden account after the last one
expand_account_capacity(accounts, n) ==
    IF n = 0 THEN accounts
    ELSE expand_account_capacity(
             Append(accounts, MkAccount(accounts[Len(accounts)].account_id + 1, FALSE, TRUE)), n - 1)

\* FirstHidden with the last hidden account taken for the first
LastHidden(accounts) ==
    IF \E i \in 1..Len(accounts) : ~accounts[i].visible
    THEN SetMax({i \in 1..Len(accounts) : ~accounts[i].visible}) - 1
    ELSE NoneIdx

\* .position(|_account| _account.visible == false)
FirstHidden(accounts) ==
    IF \E i \in 1..Len(accounts) : ~accounts[i].visible
    THEN SetMin({i \in 1..Len(accounts) : ~accounts[i].visible}) - 1
    ELSE NoneIdx

RECURSIVE get_new_account(_)
\* get_new_account on [root_key, accounts, rows]: [ret, root_key, accounts, rows]
get_new_account(b) ==
    Let(FirstHidden(b.accounts), LAMBDA account_id :
        IF account_id # NoneIdx
        THEN Let(IF b.root_key /\ Len(b.accounts) < account_id + PRE_FETCH_ACCOUNT_LEN
                 THEN expand_account_capacity(b.accounts, 1) ELSE b.accounts, LAMBDA accounts :
                 [ret |-> "Ok",
                  rows |-> WriteRow(b.rows, [At(accounts, account_id) EXCEPT !.visible = TRUE]),
                  accounts |-> SetAt(accounts, account_id, [At(accounts, account_id) EXCEPT !.visible = TRUE]),
                  root_key |-> b.root_key])
        ELSE IF b.root_key
        THEN IF Len(b.accounts) = 0
             THEN [ret |-> "panic", rows |-> b.rows, accounts |-> b.accounts, root_key |-> b.root_key]
             ELSE get_new_account(
                      [b EXCEPT !.accounts = expand_account_capacity(b.accounts, PRE_FETCH_ACCOUNT_LEN)])
        ELSE [ret |-> "Err", rows |-> b.rows, accounts |-> b.accounts, root_key |-> b.root_key])

\* ------------------------------------------------------------------------
\* Chain
\* ------------------------------------------------------------------------
KeepFinalized == 1
KeepRecent == 50

\* the state a handler works on: ch.tables is the committed store
ChainState == [tables |-> tables, confirmed |-> confirmed, txs |-> txs,
               account |-> account, best_chain |-> best_chain]

Out(ret, ch) == [ret |-> ret, ch |-> ch]

\* Chain::push_unconfirmed; fail names the storage call that returns an
\* I/O error ("none": no error)
chain_push_unconfirmed(ch, tx, fail) ==
    IF is_coinbase(tx) THEN Out("panic", ch)
    ELSE IF have_the_tx(ch.txs, tx.hash) THEN Out("Err", ch)
    ELSE
    Let(remove_by_duplicate_inputs(ch.txs, ch.tables.tx_cache, tx.inputs, fail = "read_txcache"),
        LAMBDA d :
        IF d.st = "err" THEN Out("Err", ch)
        ELSE IF d.st # "ok" THEN Out(d.st, ch)
        ELSE
        Let(push_new_tx(d.txs, tx), LAMBDA p :
            IF p.st = "err" THEN Out("Err", [ch EXCEPT !.txs = d.txs])
            ELSE IF p.st # "ok" THEN Out(p.st, ch)
            ELSE IF fail = "write_txcache" THEN Out("Err", [ch EXCEPT !.txs = p.txs])
            ELSE
            Let(update_by_tx(ch.account, tx, write_txcache(ch.tables, tx)), LAMBDA u :
                IF u.st # "ok" THEN Out(u.st, ch)
                ELSE Out("Ok", [ch EXCEPT !.txs = p.txs, !.account = u.account, !.tables = u.cur]))))

RECURSIVE RevertTxs(_, _, _, _)
\* for txhash in fork.txs_hash.iter().skip(1).rev(): read_txcache, push_new_tx
RevertTxs(v, t, hashes, fail) ==
    IF Len(hashes) = 0 THEN Res("ok", v, NoneIdx)
    ELSE IF fail = "read_txcache" THEN Res("err", v, NoneIdx)
    ELSE IF ~read_txcache(t, Head(hashes)) THEN Res("panic", v, NoneIdx)
    ELSE Let(push_new_tx(v, TxOf(Head(hashes))), LAMBDA p :
             IF p.st # "ok" THEN Res(p.st, v, NoneIdx)
             ELSE RevertTxs(p.txs, t, Tail(hashes), fail))

RECURSIVE RevertBlocks(_, _, _, _, _)
\* revert fork (tx: confirmed -> unconfirmed), newest block first
RevertBlocks(c, v, t, blockhashes, fail) ==
    IF Len(blockhashes) = 0 THEN Res("ok", v, NoneIdx)
    ELSE IF get_block_ref(c, Head(blockhashes)).flag = "Genesis" THEN Res("panic", v, NoneIdx)
    ELSE Let(RevertTxs(v, t, Reverse(Tail(get_block_ref(c, Head(blockhashes)).txs_hash)), fail),
             LAMBDA r : IF r.st # "ok" THEN r
                        ELSE RevertBlocks(c, r.txs, t, Tail(blockhashes), fail))

RECURSIVE ApplyBlocks(_, _, _)
\* construct main (tx: unconfirmed -> confirmed), oldest block first
ApplyBlocks(c, v, blockhashes) ==
    IF Len(blockhashes) = 0 THEN Res("ok", v, NoneIdx)
    ELSE Let(remove_many(v, Tail(get_block_ref(c, Head(blockhashes)).txs_hash)), LAMBDA r :
             IF r.st # "ok" THEN r ELSE ApplyBlocks(c, r.txs, Tail(blockhashes)))

RECURSIVE AddrIndexInputs(_, _, _, _, _)
\* for (input, output) in inputs.zip(inputs_cache): [cur, is_account_tx]
AddrIndexInputs(a, acc, tx, i, full_index) ==
    IF i > Len(tx.inputs) \/ i > Len(tx.inputs_cache) THEN a
    ELSE IF full_index \/ is_account_address(acc, tx.inputs_cache[i].addr)
    THEN AddrIndexInputs([cur |-> remove_addr_index(a.cur, tx.inputs_cache[i].addr, tx.inputs[i]),
                          is_account_tx |-> TRUE], acc, tx, i + 1, full_index)
    ELSE AddrIndexInputs(a, acc, tx, i + 1, full_index)

RECURSIVE AddrIndexOutputs(_, _, _, _, _)
\* for (index, output) in outputs.enumerate(): [cur, is_account_tx]
AddrIndexOutputs(a, acc, tx, i, full_index) ==
    IF i > Len(tx.outputs) THEN a
    ELSE IF full_index \/ is_account_address(acc, tx.outputs[i].addr)
    THEN AddrIndexOutputs([cur |-> write_addr_index(a.cur, tx.outputs[i], tx.hash, i - 1),
                           is_account_tx |-> TRUE], acc, tx, i + 1, full_index)
    ELSE AddrIndexOutputs(a, acc, tx, i + 1, full_index)

\* the tx index step: [st, cur, indexed_txs]
IndexTx(a, o, txhash, indexed_txs) ==
    [st |-> "ok", cur |-> remove_from_txcache(a.cur, txhash),
     indexed_txs |-> IF o.tx_index \/ a.is_account_tx
                     THEN Append(indexed_txs, txhash) ELSE indexed_txs]

\* the utxo, addr index, remove tx and tx index steps for tx
FinalizeFound(cur, acc, o, tx, indexed_txs) ==
    IndexTx(AddrIndexOutputs(
                AddrIndexInputs([cur |-> write_utxo_index(cur, tx), is_account_tx |-> FALSE],
                                acc, tx, 1, o.addr_index),
                acc, tx, 1, o.addr_index),
            o, tx.hash, indexed_txs)

\* FinalizeTx with the coinbase taken for every transaction of the block
FinalizeTxCoinbaseOnly(cur, acc, o, block, txhash, indexed_txs) ==
    IF txhash = CoinbaseHash(block.hash) \/ read_txcache(cur, txhash)
    THEN FinalizeFound(cur, acc, o, Coinbase(block.hash), indexed_txs)
    ELSE [st |-> "err", cur |-> cur, indexed_txs |-> indexed_txs]

\* the body of `for txhash in block.txs_hash.iter()` of the finalization:
\* [st, cur, indexed_txs]
FinalizeTx(cur, acc, o, block, txhash, indexed_txs) ==
    IF txhash = CoinbaseHash(block.hash)
    THEN FinalizeFound(cur, acc, o, Coinbase(block.hash), indexed_txs)
    ELSE IF read_txcache(cur, txhash)
    THEN FinalizeFound(cur, acc, o, TxOf(txhash), indexed_txs)
    ELSE [st |-> "err", cur |-> cur, indexed_txs |-> indexed_txs]

RECURSIVE FinalizeTxs(_, _, _, _, _, _)
FinalizeTxs(cur, acc, o, block, hashes, indexed_txs) ==
    IF Len(hashes) = 0 THEN [st |-> "ok", cur |-> cur, indexed_txs |-> indexed_txs]
    ELSE Let(FinalizeTx(cur, acc, o, block, Head(hashes), indexed_txs), LAMBDA f :
             IF f.st # "ok" THEN f
             ELSE FinalizeTxs(f.cur, acc, o, block, Tail(hashes), f.indexed_txs))

RECURSIVE FinalizeBlocks(_, _, _, _, _)
\* for (block, coinbase) in finalized: [st, cur, account]
FinalizeBlocks(cur, acc, o, finalized, fail) ==
    IF Len(finalized) = 0 THEN [st |-> "ok", cur |-> cur, account |-> acc]
    ELSE IF fail = "write_block_index" THEN [st |-> "err", cur |-> cur, account |-> acc]
    ELSE Let(FinalizeTxs(write_block_index(cur, Head(finalized).height, Head(finalized).hash),
                         acc, o, Head(finalized), Head(finalized).txs_hash, <<>>), LAMBDA f :
             IF f.st # "ok" THEN [st |-> f.st, cur |-> cur, account |-> acc]
             ELSE Let(finalize_block(acc, Head(finalized),
                                     write_tx_index(f.cur, Head(finalized).hash, f.indexed_txs)),
                      LAMBDA a : FinalizeBlocks(a.cur, a.account, o, Tail(finalized), fail)))

\* the finalization and the end of push_new_block; ch holds the new
\* Confirmed and mempool, cur the cursor
Finalize(ch, o, cur, fail) ==
    Let(truncate_old_blocks(ch.confirmed, KeepFinalized, KeepRecent), LAMBDA tr :
        Let(FinalizeBlocks(cur, ch.account, o, tr.finalized, fail), LAMBDA fb :
            IF fb.st = "err" \/ fail = "update_temporary_file"
            THEN Out("Err", [ch EXCEPT !.confirmed = tr.confirmed, !.account = fb.account])
            ELSE Out("Ok", [ch EXCEPT !.confirmed = tr.confirmed, !.account = fb.account,
                                      !.tables = fb.cur,
                                      !.best_chain = get_best_chain(tr.confirmed)])))

\* Chain::push_new_block
chain_push_new_block(ch, o, block, txlist, fail) ==
    IF fail = "write_block" THEN Out("Err", ch)
    ELSE
    Let(ConfirmedPush(ch.confirmed, block), LAMBDA cp :
        Let(RevertBlocks(cp.confirmed, ch.txs, write_block(ch.tables, block, txlist), cp.revert, fail),
            LAMBDA rv :
            IF rv.st = "err" THEN Out("Err", [ch EXCEPT !.confirmed = cp.confirmed, !.txs = rv.txs])
            ELSE IF rv.st # "ok" THEN Out(rv.st, ch)
            ELSE
            Let(ApplyBlocks(cp.confirmed, rv.txs, Reverse(cp.apply)), LAMBDA ap :
                IF ap.st # "ok" THEN Out(ap.st, ch)
                ELSE Finalize([ch EXCEPT !.confirmed = cp.confirmed, !.txs = ap.txs], o,
                              write_block(ch.tables, block, txlist), fail))))

\* ------------------------------------------------------------------------
\* The callers: blocks are checked before push_new_block (`block check is
\* already finished`): every input of a block transaction is an output of
\* the chain the block extends and is not spent on it.
\* ------------------------------------------------------------------------
\* no decoder was called yet
NoCall == [st |-> "ok", input |-> <<>>, op |-> "none", out |-> <<>>, bytes |-> <<>>]

\* GenerateBuilder::new
GenerateBuilderNew ==
    [threads |-> <<>>, reserve |-> <<>>, info |-> {}, futures |-> <<>>, next_id |-> 1, unconfirmed |-> 0]

MaxBlocks == 54
MaxForks == 1
EarlyHeight == 2
MaxBlockTxs == 1
MaxDeadline == 6

BlockTxs(b) == {Coinbase(b.hash)} \cup {TxOf(b.txs_hash[i]) : i \in 2..Len(b.txs_hash)}
\* the transactions of the blocks of Confirmed from `hash` back to the root
PathTxs(c, hash) == UNION {BlockTxs(c.blocks[h]) : h \in Range(PathUp(c, hash))}

Produces(tx, input) == tx.hash = input.hash /\ input.vout < Len(tx.outputs)
Spends(tx, input) == input \in Range(tx.inputs)

UnusedOn(t, txset, input) ==
    /\ input \in t.utxo_index \/ \E tx \in txset : Produces(tx, input)
    /\ \A tx \in txset : ~Spends(tx, input)

ValidTxList(c, t, parent, hashes) ==
    \A i \in 1..Len(hashes) :
        Let(PathTxs(c, parent) \cup {TxOf(hashes[j]) : j \in 1..(i - 1)}, LAMBDA before :
            /\ \A j \in 1..(i - 1) : hashes[j] # hashes[i]
            /\ TxOf(hashes[i]) \notin before
            /\ \A input \in Range(TxOf(hashes[i]).inputs) : UnusedOn(t, before, input))

TxLists == UNION {[1..n -> {t.hash : t \in ChainTxs}] : n \in 0..MaxBlockTxs}

TipHash == IF Len(best_chain) = 0 THEN confirmed.root_hash ELSE Head(best_chain)
HeightOf(hash) == IF Known(confirmed, hash) THEN get_block_ref(confirmed, hash).height ELSE 0 - 1
Early == HeightOf(TipHash) < EarlyHeight

LiveHashes(v) == {v[i].hash : i \in {j \in 1..Len(v) : is_some(v[j])}}
SharesInput(a, b) == a.hash # b.hash /\ Range(a.inputs) \cap Range(b.inputs) # {}

\* the mempool transactions v holds that share an input with a transaction
\* of one of the blocks `joined`, each with that transaction and its block
Conflicts(v, c, joined) ==
    {[tx |-> m, with |-> t.hash, block |-> h] :
        <<m, t, h>> \in {x \in LiveHashes(v) \X ChainTxs \X joined :
                           /\ x[2].hash \in Range(Tail(get_block_ref(c, x[3]).txs_hash))
                           /\ SharesInput(TxOf(x[1]), x[2])}}

\* what a call leaves behind: an Ok or Err return leaves the handler's
\* state; a storage error ends the run (the caller treats it as fatal); a
\* panic or a call that never returns leaves nothing to observe.
Leave(op, r, hashes, block, fail) ==
    /\ lastOp' = [op |-> op, ret |-> r.ret, hashes |-> hashes, block |-> block,
                  fail |-> IF r.ret = "Err" THEN fail ELSE "none"]
    /\ status' = IF r.ret \in {"panic", "diverge"} THEN r.ret
                 ELSE IF fail # "none" /\ r.ret = "Err" THEN "io_error" ELSE "ok"
    /\ IF r.ret \in {"Ok", "Err"}
       THEN /\ tables' = r.ch.tables
            /\ confirmed' = r.ch.confirmed
            /\ txs' = r.ch.txs
            /\ account' = r.ch.account
            /\ best_chain' = r.ch.best_chain
       ELSE UNCHANGED <<tables, confirmed, txs, account, best_chain>>
    /\ io' = NoCall
    /\ UNCHANGED <<gen, wallet>>

\* the blocks a new block may build on: the tip, and early on any other
\* block of Confirmed and its root
Parents ==
    IF Early /\ forks < MaxForks THEN {TipHash, confirmed.root_hash} \cup DOMAIN confirmed.blocks
    ELSE {TipHash}

\* the storage calls of push_new_block that may fail in the present state
BlockFailures ==
    {"none"} \cup (IF Early THEN {"write_block", "read_txcache", "update_temporary_file"} ELSE {})
             \cup (IF Len(best_chain) >= KeepRecent THEN {"write_block_index"} ELSE {})

\* the block the caller hands in
NewBlock(parent, score, hashes) ==
    MkBlock(next_hash, parent, HeightOf(parent) + 1,
            IF parent = GENESIS_PREVIOUS_HASH THEN "Genesis" ELSE "YesPow",
            score, <<CoinbaseHash(next_hash)>> \o hashes)

\* what push_new_block leaves behind, r being its outcome
LeaveBlock(r, parent, hashes, fail) ==
    /\ Leave("push_new_block", r, Range(hashes), next_hash, fail)
    /\ forks' = IF parent # TipHash THEN forks + 1 ELSE forks
    /\ conflicted' =
         IF r.ret = "Ok"
         THEN conflicted \cup Conflicts(txs, r.ch.confirmed,
                                        Range(r.ch.best_chain) \ Range(best_chain))
         ELSE conflicted

PushNewBlock ==
    /\ status = "ok"
    /\ next_hash <= MaxBlocks
    /\ \E parent \in Parents, hashes \in (IF Early THEN TxLists ELSE {<<>>}),
          score \in {1, 2}, fail \in BlockFailures :
        /\ parent = TipHash => score = 1
        /\ ValidTxList(confirmed, tables, parent, hashes)
        /\ LeaveBlock(chain_push_new_block(
                          ChainState, opts, NewBlock(parent, score, hashes),
                          <<Coinbase(next_hash)>> \o [i \in 1..Len(hashes) |-> TxOf(hashes[i])],
                          fail),
                      parent, hashes, fail)
    /\ next_hash' = next_hash + 1
    /\ UNCHANGED opts

PushUnconfirmed ==
    /\ status = "ok"
    /\ Early
    /\ \E tx \in UnconfirmedTxs, fail \in {"none", "read_txcache", "write_txcache"} :
        Leave("push_unconfirmed", chain_push_unconfirmed(ChainState, tx, fail), {tx.hash}, 0, fail)
    /\ UNCHANGED <<opts, next_hash, forks, conflicted>>

RECURSIVE RestoreEach(_, _)
\* for (hash, bytes) in tables.read_txcache_iter() { push_new_tx(&tx)? }
RestoreEach(v, hashes) ==
    IF Len(hashes) = 0 THEN Res("ok", v, NoneIdx)
    ELSE Let(push_new_tx(v, TxOf(Head(hashes))), LAMBDA p :
             IF p.st # "ok" THEN Res(p.st, v, NoneIdx)
             ELSE RestoreEach(p.txs, Tail(hashes)))

\* restore_from_txcache: unconfirmed = txcache - best_chain's txs
restore_from_txcache(t, best) ==
    IF \E h \in Range(best) : \A b \in t.block : b.hash # h
    THEN Res("panic", <<>>, NoneIdx)
    ELSE RestoreEach(<<>>, SeqOfSet(t.tx_cache \
             UNION {Range(b.txs_hash) : b \in {x \in t.block : x.hash \in Range(best)}}))

\* Chain::new on an existing database: Confirmed comes back from its file,
\* the mempool from tx_cache, the account from account_state
chain_new(ch, deadline) ==
    Let(restore_from_txcache(ch.tables, get_best_chain(ch.confirmed)), LAMBDA u :
        IF u.st = "err" THEN Out("Err", ch)
        ELSE IF u.st # "ok" THEN Out(u.st, ch)
        ELSE Let(remove_expired_txs(u.txs, deadline, <<>>), LAMBDA e :
                 IF e.st # "ok" THEN Out(e.st, ch)
                 ELSE Out("Ok", [ch EXCEPT !.txs = e.txs,
                                           !.account = ch.tables.account_state[1],
                                           !.best_chain = get_best_chain(ch.confirmed)])))

\* `block.height <= best_block.height - confirm` in u32: with confirm above
\* the best height the difference panics in a build with overflow checks and
\* wraps to 2^32 - (confirm - best), above every height, in one without
EnoughOld(height, best, confirm) == IF confirm <= best THEN height <= best - confirm ELSE TRUE

\* the movement of account 0 that temp_movement holds for the tx, if any
DeltaOf(t, txhash) ==
    IF read_temporary_movement(t, txhash) = {} THEN 0
    ELSE (CHOOSE m \in read_temporary_movement(t, txhash) : TRUE).delta

\* an incoming delta counts as confirmed when its block is old enough
AddDelta(bal, delta, f_enough_old) ==
    IF f_enough_old \/ delta < 0 THEN [bal EXCEPT !.confirmed = @ + delta]
    ELSE [bal EXCEPT !.unconfirmed = @ + delta]

RECURSIVE BalanceOfTxs(_, _, _, _)
BalanceOfTxs(bal, t, hashes, f_enough_old) ==
    IF Len(hashes) = 0 THEN bal
    ELSE BalanceOfTxs(AddDelta(bal, DeltaOf(t, Head(hashes)), f_enough_old), t, Tail(hashes), f_enough_old)

RECURSIVE BalanceOfBlocks(_, _, _, _, _)
\* for blockhash in self.best_chain.iter().rev()
BalanceOfBlocks(bal, ch, blocks, best, confirm) ==
    IF Len(blocks) = 0 THEN bal
    ELSE BalanceOfBlocks(
             BalanceOfTxs(bal, ch.tables, get_block_ref(ch.confirmed, Head(blocks)).txs_hash,
                          EnoughOld(get_block_ref(ch.confirmed, Head(blocks)).height, best, confirm)),
             ch, Tail(blocks), best, confirm)

\* Chain::get_account_balance of account 0
get_account_balance(ch, confirm, overflow_checks) ==
    IF Len(ch.best_chain) = 0 THEN Dec("panic", <<>>)
    ELSE Let(get_block_ref(ch.confirmed, Head(ch.best_chain)).height, LAMBDA best :
             IF best < confirm /\ overflow_checks THEN Dec("panic", <<>>)
             ELSE Dec("ok", BalanceOfTxs(
                                BalanceOfBlocks([confirmed |-> ch.account.balance, unconfirmed |-> 0],
                                                ch, Reverse(ch.best_chain), best, confirm),
                                ch.tables,
                                [i \in 1..Len(Filtered(ch.txs)) |-> Filtered(ch.txs)[i].hash],
                                FALSE)))

MaxConfirm == 3

GetAccountBalance ==
    /\ status = "ok"
    /\ Early
    /\ \E confirm \in 0..MaxConfirm, overflow_checks \in BOOLEAN :
        Let(get_account_balance(ChainState, confirm, overflow_checks), LAMBDA r :
            /\ io' = [st |-> r.st, input |-> confirm, op |-> "get_account_balance", out |-> r.v,
                      bytes |-> <<>>]
            /\ status' = IF r.st = "panic" THEN "panic" ELSE status)
    /\ UNCHANGED <<tables, confirmed, txs, account, best_chain, opts, next_hash, forks, lastOp,
                   conflicted, gen, wallet>>

\* the process is started again on its database
Restart ==
    /\ status = "ok"
    /\ Early
    /\ \E deadline \in {0, MaxDeadline} :
        Leave("new", chain_new(ChainState, deadline), {deadline}, 0, "none")
    /\ UNCHANGED <<opts, next_hash, forks, conflicted>>

Init ==
    /\ tables = [EmptyTables EXCEPT !.account_state = <<AccountNew>>]
    /\ confirmed = ConfirmedNew(GENESIS_PREVIOUS_HASH)
    /\ txs = <<>>
    /\ account = AccountNew
    /\ best_chain = <<>>
    /\ opts \in [tx_index : BOOLEAN, addr_index : BOOLEAN]
    /\ next_hash = GenesisHash
    /\ forks = 0
    /\ status = "ok"
    /\ lastOp = [op |-> "new", ret |-> "Ok", hashes |-> {}, block |-> 0, fail |-> "none"]
    /\ conflicted = {}
    /\ gen = GenerateBuilderNew
    /\ io = NoCall
    /\ wallet = AccountBuilderNew

Next == PushNewBlock \/ PushUnconfirmed \/ Restart \/ GetAccountBalance

Spec == Init /\ [][Next]_vars

\* ------------------------------------------------------------------------
\* The mempool on its own: the operations of UnconfirmedBuilder
\* ------------------------------------------------------------------------
PoolLeave(op, r, hashes) ==
    /\ lastOp' = [op |-> op, ret |-> IF r.st = "ok" THEN "Ok" ELSE IF r.st = "err" THEN "Err" ELSE r.st,
                  hashes |-> hashes, block |-> 0, fail |-> "none"]
    /\ status' = IF r.st \in {"panic", "diverge"} THEN r.st ELSE "ok"
    /\ txs' = IF r.st \in {"ok", "err"} THEN r.txs ELSE txs
    /\ UNCHANGED <<tables, confirmed, account, best_chain, opts, next_hash, forks, conflicted, gen, wallet, io>>

PoolPushNewTx ==
    /\ status = "ok"
    /\ \E tx \in TxUniverse : PoolLeave("push_new_tx", push_new_tx(txs, tx), {tx.hash})

PoolRemoveMany ==
    /\ status = "ok"
    /\ \E S \in SUBSET TxHashes : PoolLeave("remove_many", remove_many(txs, SeqOfSet(S)), S)

PoolRemoveByDuplicateInputs ==
    /\ status = "ok"
    /\ \E tx \in TxUniverse :
        PoolLeave("remove_by_duplicate_inputs",
                  remove_by_duplicate_inputs(txs, tables.tx_cache, tx.inputs, FALSE), {tx.hash})

PoolRemoveExpired ==
    /\ status = "ok"
    /\ \E deadline \in 0..MaxDeadline :
        PoolLeave("remove_expired_txs", remove_expired_txs(txs, deadline, <<>>), {deadline})

PoolInit ==
    /\ tables = [EmptyTables EXCEPT !.account_state = <<AccountNew>>, !.tx_cache = TxHashes]
    /\ confirmed = ConfirmedNew(GENESIS_PREVIOUS_HASH)
    /\ txs = <<>>
    /\ account = AccountNew
    /\ best_chain = <<>>
    /\ opts = [tx_index |-> FALSE, addr_index |-> FALSE]
    /\ next_hash = GenesisHash
    /\ forks = 0
    /\ status = "ok"
    /\ lastOp = [op |-> "new", ret |-> "Ok", hashes |-> {}, block |-> 0, fail |-> "none"]
    /\ conflicted = {}
    /\ gen = GenerateBuilderNew
    /\ io = NoCall
    /\ wallet = AccountBuilderNew

\* the inputs asked about: those the transactions spend, and the other
\* output of the same producing transactions
AskedInputs == UNION {Range(t.inputs) : t \in TxUniverse} \cup {MkInput(TxT.hash, 1)}
MaxSizes == {0, 106, 300}

\* what a scan leaves behind: the input as numbers, an output as its amount
PoolAsk(op, input, r) ==
    /\ lastOp' = [op |-> op, ret |-> IF r.st = "ok" THEN "Ok" ELSE IF r.st = "err" THEN "Err" ELSE r.st,
                  hashes |-> {}, block |-> 0, fail |-> "none"]
    /\ status' = IF r.st \in {"panic", "diverge"} THEN r.st ELSE "ok"
    /\ io' = [st |-> r.st, input |-> input, op |-> op, out |-> r.ret, bytes |-> <<>>]
    /\ UNCHANGED <<tables, confirmed, txs, account, best_chain, opts, next_hash, forks, conflicted,
                   gen, wallet>>

PoolGetSize ==
    /\ status = "ok"
    /\ \E overflow_checks \in BOOLEAN :
        PoolAsk("get_size", overflow_checks, unconfirmed_get_size(txs, overflow_checks))

PoolInputAlreadyUsed ==
    /\ status = "ok"
    /\ \E input \in AskedInputs :
        PoolAsk("input_already_used", <<input.hash, input.vout>>,
                input_already_used(txs, input, tables.tx_cache, FALSE))

PoolGetSizeLimitList ==
    /\ status = "ok"
    /\ \E maxsize \in MaxSizes :
        PoolAsk("get_size_limit_list", maxsize, get_size_limit_list(txs, maxsize))

PoolFindOutputOfInput ==
    /\ status = "ok"
    /\ \E input \in AskedInputs, output \in {NoOutput, MkOutput(ExtAddr(0), 50)}, ignore \in BOOLEAN :
        Let(find_output_of_input(txs, input, output, ignore, tables.tx_cache, FALSE), LAMBDA r :
            PoolAsk("find_output_of_input", <<input.hash, input.vout, output.amount, ignore>>,
                    Ask(r.st, r.ret.amount)))

PoolIsUnusedInput ==
    /\ status = "ok"
    /\ \E input \in AskedInputs, except_hash \in TxHashes \cup {NoHash} :
        PoolAsk("is_unused_input", <<input.hash, input.vout, except_hash>>,
                is_unused_input(txs, input, except_hash))

PoolNext ==
    \/ PoolPushNewTx \/ PoolRemoveMany \/ PoolRemoveByDuplicateInputs \/ PoolRemoveExpired
    \/ PoolGetSize \/ PoolInputAlreadyUsed \/ PoolGetSizeLimitList \/ PoolFindOutputOfInput
    \/ PoolIsUnusedInput

SpecPool == PoolInit /\ [][PoolNext]_vars

\* ------------------------------------------------------------------------
\* Txs on its own: push, insert, remove, position and one iterator run to
\* its end, forwards and backwards
\* ------------------------------------------------------------------------
MaxRaw == 4
TxsEntries == {Entry(t) : t \in TxUniverse}

RECURSIVE Forward(_, _, _)
\* let mut iter = txs.streaming(); while let Some(tx) = iter.next() { .. }
Forward(v, index, hashes) ==
    Let(advance(index, v), LAMBDA i :
        Let(get(i, v), LAMBDA n :
            CASE n.kind = "none" -> Ask("ok", hashes)
              [] n.kind = "panic" -> Ask("panic", hashes)
              [] OTHER -> Forward(v, i, Append(hashes, n.tx.hash))))

RECURSIVE Backward(_, _, _, _)
\* the same with .rev(): at index 0 `index -= 1` is 0 - 1 on a usize, which
\* aborts where the build checks overflow and wraps to usize::MAX (no such
\* slot, the end of the iteration) where it does not
Backward(v, index, hashes, overflow_checks) ==
    IF index = 0 /\ overflow_checks THEN Ask("panic", hashes)
    ELSE Let(advance_back(index, v), LAMBDA i :
             Let(get(i, v), LAMBDA n :
                 CASE n.kind = "none" -> Ask("ok", hashes)
                   [] n.kind = "panic" -> Ask("panic", hashes)
                   [] OTHER -> Backward(v, i, Append(hashes, n.tx.hash), overflow_checks)))

\* what an operation of Txs leaves behind
TxsLeave(op, input, st, v, out) ==
    /\ lastOp' = [op |-> op, ret |-> IF st = "ok" THEN "Ok" ELSE st, hashes |-> {}, block |-> 0,
                  fail |-> "none"]
    /\ status' = st
    /\ txs' = IF st = "ok" THEN v ELSE txs
    /\ io' = [st |-> st, input |-> input, op |-> op, out |-> out, bytes |-> <<>>]
    /\ UNCHANGED <<tables, confirmed, account, best_chain, opts, next_hash, forks, conflicted,
                   gen, wallet>>

TxsPush ==
    /\ status = "ok"
    /\ Len(txs) < MaxRaw
    /\ \E e \in TxsEntries :
        /\ ~exist(txs, e.hash)
        /\ TxsLeave("push", <<e.hash>>, "ok", push(txs, e), <<>>)

TxsInsert ==
    /\ status = "ok"
    /\ Len(txs) < MaxRaw
    /\ \E e \in TxsEntries, index \in 0..len(txs) :
        /\ ~exist(txs, e.hash)
        /\ Let(insert(txs, index, e), LAMBDA r :
               TxsLeave("insert", <<index, e.hash>>, r.st, r.txs, <<>>))

TxsRemove ==
    /\ status = "ok"
    /\ \E index \in 0..len(txs) :
        Let(remove(txs, index), LAMBDA r : TxsLeave("remove", <<index>>, r.st, r.txs, <<r.item.hash>>))

TxsPosition ==
    /\ status = "ok"
    /\ \E hash \in TxHashes : TxsLeave("position", <<hash>>, "ok", txs, <<position(txs, hash)>>)

TxsIterate ==
    /\ status = "ok"
    /\ Let(Forward(txs, NoneIdx, <<>>), LAMBDA r : TxsLeave("iterate", <<>>, r.st, txs, r.ret))

TxsIterateBack ==
    /\ status = "ok"
    /\ \E overflow_checks \in BOOLEAN :
        Let(Backward(txs, NoneIdx, <<>>, overflow_checks), LAMBDA r :
            TxsLeave("iterate_back", <<overflow_checks>>, r.st, txs, r.ret))

TxsNext == TxsPush \/ TxsInsert \/ TxsRemove \/ TxsPosition \/ TxsIterate \/ TxsIterateBack

SpecTxs == PoolInit /\ [][TxsNext]_vars

\* ------------------------------------------------------------------------
\* GenerateBuilder: threads is the working set, reserve the workers waiting
\* for the next block, info the flags of new_block_info; futures are the
\* GenerateFutures that were thrown and not yet handed to future_result,
\* each the workers its threads own.  A worker is [flag, id, updated,
\* merkle]: updated says that update_by_new_block has set its bits, merkle
\* is the unconfirmed list its header's merkleroot was computed over.
\* unconfirmed is the builder's list; lists are numbered, 0 the empty one.
\* ------------------------------------------------------------------------
MaxWorkers == 3
MaxFutures == 2
MaxLists == 1
GenFlags == {"CoinPos", "YesPow"}
IsPow(flag) == flag \in {"YesPow", "X11Pow", "X16sPow"}

GenOut(ret, g) == [ret |-> ret, gen |-> g, fail |-> "none", merkle |-> 0]
GenFail(g, fail) == [ret |-> "panic", gen |-> g, fail |-> fail, merkle |-> 0]

gen_push_worker(g, worker) ==
    IF \E t \in Range(g.reserve \o g.threads) : t.flag = worker.flag
    THEN GenOut("Err", g)
    ELSE GenOut("Ok", [g EXCEPT !.threads = Append(@, worker)])

gen_remove_worker(g, flag) ==
    GenOut("Ok", [g EXCEPT !.reserve = SelectSeq(@, LAMBDA t : t.flag # flag),
                           !.threads = SelectSeq(@, LAMBDA t : t.flag # flag)])

\* update_by_new_block: the reserve is merged first; calc_fails is an error
\* of calc_next_bits / calc_next_bias for the first worker
gen_update_by_new_block(g, calc_fails) ==
    Let([g EXCEPT !.threads = @ \o g.reserve, !.reserve = <<>>], LAMBDA m :
        IF calc_fails /\ Len(m.threads) > 0 THEN GenOut("Err", m)
        ELSE GenOut("Ok", [m EXCEPT
                 !.threads = [i \in 1..Len(m.threads) |->
                                 [m.threads[i] EXCEPT !.updated = TRUE, !.merkle = m.unconfirmed]],
                 !.info = @ \cup {m.threads[i].flag : i \in 1..Len(m.threads)}]))

\* throw_task: the workers are popped, newest first, into the future
gen_throw_task(g) ==
    GenOut("Ok", [g EXCEPT !.threads = <<>>, !.futures = Append(@, Reverse(g.threads))])

gen_update_unconfirmed_list(g, unconfirmed) == GenOut("Ok", [g EXCEPT !.unconfirmed = unconfirmed])

\* generate() of a worker that was never updated unwraps bits_to_target(0):
\* its thread panics, and so does the join of future_result.  found is the
\* set of positions, in the order of the join, of the results that are not
\* NotFoundWork; the first of them is made a block, whose merkleroot is the
\* worker's for a PoW result (it is asserted to be that of the builder's
\* list) and is computed from the builder's list otherwise.
gen_future_result(g, k, found) ==
    IF \E w \in Range(g.futures[k]) : ~w.updated THEN GenFail(g, "generate")
    ELSE IF found = {} THEN GenOut("None", [g EXCEPT !.threads = @ \o g.futures[k],
                                                  !.futures = SubSeq(@, 1, k - 1) \o SubSeq(@, k + 1, Len(@))])
    ELSE Let(g.futures[k][SetMin(found)], LAMBDA worker :
             IF IsPow(worker.flag) /\ worker.merkle # g.unconfirmed THEN GenFail(g, "merkleroot")
             ELSE [ret |-> "Some",
                   gen |-> [g EXCEPT !.threads = @ \o g.futures[k],
                                     !.futures = SubSeq(@, 1, k - 1) \o SubSeq(@, k + 1, Len(@))],
                   fail |-> "none",
                   merkle |-> IF IsPow(worker.flag) THEN worker.merkle ELSE g.unconfirmed])

GenLeave(op, r, hashes) ==
    /\ lastOp' = [op |-> op, ret |-> r.ret, hashes |-> hashes, block |-> r.merkle, fail |-> r.fail]
    /\ status' = IF r.ret = "panic" THEN "panic" ELSE "ok"
    /\ gen' = IF r.ret = "panic" THEN gen ELSE r.gen
    /\ UNCHANGED <<tables, confirmed, txs, account, best_chain, opts, next_hash, forks, conflicted, wallet, io>>

GenPushWorker ==
    /\ status = "ok"
    /\ gen.next_id <= MaxWorkers
    /\ \E flag \in GenFlags :
        GenLeave("push_worker",
                 gen_push_worker([gen EXCEPT !.next_id = @ + 1],
                                 [flag |-> flag, id |-> gen.next_id, updated |-> FALSE, merkle |-> 0]),
                 {flag})

GenRemoveWorker ==
    /\ status = "ok"
    /\ \E flag \in GenFlags : GenLeave("remove_worker", gen_remove_worker(gen, flag), {flag})

GenUpdateByNewBlock ==
    /\ status = "ok"
    /\ \E calc_fails \in BOOLEAN :
        GenLeave("update_by_new_block", gen_update_by_new_block(gen, calc_fails), {})

GenUpdateUnconfirmedList ==
    /\ status = "ok"
    /\ \E unconfirmed \in 0..MaxLists :
        GenLeave("update_unconfirmed_list", gen_update_unconfirmed_list(gen, unconfirmed), {})

GenThrowTask ==
    /\ status = "ok"
    /\ Len(gen.futures) < MaxFutures
    /\ GenLeave("throw_task", gen_throw_task(gen), {})

GenFutureResult ==
    /\ status = "ok"
    /\ \E k \in 1..Len(gen.futures) :
        \E found \in SUBSET {i \in 1..Len(gen.futures[k]) : gen.futures[k][i].updated} :
        GenLeave("future_result", gen_future_result(gen, k, found), found)

GenNext ==
    \/ GenPushWorker \/ GenRemoveWorker \/ GenUpdateByNewBlock \/ GenUpdateUnconfirmedList
    \/ GenThrowTask \/ GenFutureResult

SpecGen == PoolInit /\ [][GenNext]_vars

\* ------------------------------------------------------------------------
\* Serialization.  A byte string is a sequence over 0..255; an integer of
\* n bytes is written little-endian, an i64 in two's complement, a U256
\* big-endian.  Decoders return [st, v]: st is "ok", "err" (Err(..)) or
\* "panic" (a failed assert, unwrap or slice index), which ends the process.
\* ------------------------------------------------------------------------
RECURSIVE to_le_bytes(_, _)
to_le_bytes(v, n) == IF n = 0 THEN <<>> ELSE <<v % 256>> \o to_le_bytes(v \div 256, n - 1)
RECURSIVE from_le_bytes(_)
from_le_bytes(b) == IF Len(b) = 0 THEN 0 ELSE Head(b) + 256 * from_le_bytes(Tail(b))

Complement(b) == [i \in 1..Len(b) |-> 255 - b[i]]
i64_to_bytes(v) == IF v >= 0 THEN to_le_bytes(v, 8) ELSE Complement(to_le_bytes(0 - v - 1, 8))
bytes_to_i64(b) == IF b[8] >= 128 THEN 0 - from_le_bytes(Complement(b)) - 1 ELSE from_le_bytes(b)

u256_to_bytes(v) == Reverse(to_le_bytes(v, 32))
bytes_to_u256(b) == from_le_bytes(Reverse(b))

\* bytes[a..b) of the code
Slice(bytes, a, b) == SubSeq(bytes, a + 1, b)

input_to_bytes(input) == u256_to_bytes(input.hash) \o <<input.vout>>
input_from_bytes(bytes) ==
    IF Len(bytes) # 33 THEN Dec("err", <<>>)
    ELSE Dec("ok", [vout |-> bytes[33], hash |-> bytes_to_u256(Slice(bytes, 0, 32))])

\* TxOutput(address, coin_id, amount)
output_to_bytes(output) == output.address \o to_le_bytes(output.coin_id, 4) \o to_le_bytes(output.amount, 8)
output_from_bytes(bytes) ==
    IF Len(bytes) # 33 THEN Dec("err", <<>>)
    ELSE Dec("ok", [amount |-> from_le_bytes(Slice(bytes, 25, 33)), address |-> Slice(bytes, 0, 21),
                    coin_id |-> from_le_bytes(Slice(bytes, 21, 25))])

TxTypes == <<"Genesis", "PoW", "PoS", "Transfer", "Mint">>
txtype_from_int(int) == IF int < Len(TxTypes) THEN Dec("ok", TxTypes[int + 1]) ELSE Dec("err", "")
txtype_to_int(txtype) == (CHOOSE i \in 1..Len(TxTypes) : TxTypes[i] = txtype) - 1

\* String::from_utf8 on the bytes the inputs are built from: ASCII is
\* accepted, a byte of 0xf8..0xff occurs in no UTF-8 string
from_utf8_ok(message) == \A i \in 1..Len(message) : message[i] < 128

MaxMessageLen == 65535
\* TxMessage::new: Nothing drops the bytes it is given
message_new(message_type, message) ==
    IF MaxMessageLen < Len(message) THEN Dec("err", <<>>)
    ELSE CASE message_type = 0 -> Dec("ok", [kind |-> "Nothing", data |-> <<>>])
           [] message_type = 1 -> IF from_utf8_ok(message) THEN Dec("ok", [kind |-> "Plain", data |-> message])
                                  ELSE Dec("err", <<>>)
           [] message_type = 2 -> Dec("ok", [kind |-> "Byte", data |-> message])
           [] OTHER -> Dec("err", <<>>)
message_to_int(m) == CASE m.kind = "Nothing" -> 0 [] m.kind = "Plain" -> 1 [] OTHER -> 2
message_length(m) == Len(m.data)

RECURSIVE ConcatEach(_, _, _)
ConcatEach(items, F(_), i) == IF i > Len(items) THEN <<>> ELSE F(items[i]) \o ConcatEach(items, F, i + 1)

body_to_bytes(b) ==
    IF Len(b.inputs) >= 256 \/ Len(b.outputs) >= 256 \/ message_length(b.message) >= 65536
    THEN Dec("panic", <<>>)
    ELSE Dec("ok",
             to_le_bytes(b.version, 4) \o to_le_bytes(txtype_to_int(b.txtype), 4)
             \o to_le_bytes(b.time, 4) \o to_le_bytes(b.deadline, 4)
             \o to_le_bytes(b.gas_price, 8) \o i64_to_bytes(b.gas_amount)
             \o <<message_to_int(b.message), Len(b.inputs), Len(b.outputs)>>
             \o to_le_bytes(message_length(b.message), 4)
             \o ConcatEach(b.inputs, input_to_bytes, 1)
             \o ConcatEach(b.outputs, output_to_bytes, 1)
             \o b.message.data)

\* the inputs, outputs and message of from_bytes, once the length is right
BodyItems(bytes, input_len, output_len, msg_len) ==
    [inputs |-> [k \in 1..input_len |-> input_from_bytes(Slice(bytes, 39 + (k - 1) * 33, 39 + k * 33)).v],
     outputs |-> [k \in 1..output_len |->
                    output_from_bytes(Slice(bytes, 39 + (input_len + k - 1) * 33,
                                            39 + (input_len + k) * 33)).v],
     message |-> message_new(bytes[33], Slice(bytes, Len(bytes) - msg_len, Len(bytes)))]

body_from_bytes(bytes) ==
    IF Len(bytes) < 39 THEN Dec("err", <<>>)
    ELSE IF txtype_from_int(from_le_bytes(Slice(bytes, 4, 8))).st # "ok" THEN Dec("err", <<>>)
    ELSE IF Len(bytes) # 39 + bytes[34] * 33 + bytes[35] * 33 + from_le_bytes(Slice(bytes, 35, 39))
    THEN Dec("err", <<>>)
    ELSE Let(BodyItems(bytes, bytes[34], bytes[35], from_le_bytes(Slice(bytes, 35, 39))), LAMBDA it :
             IF it.message.st # "ok" THEN Dec("err", <<>>)
             ELSE Dec("ok", [inputs |-> it.inputs, outputs |-> it.outputs,
                             txtype |-> txtype_from_int(from_le_bytes(Slice(bytes, 4, 8))).v,
                             time |-> from_le_bytes(Slice(bytes, 8, 12)),
                             deadline |-> from_le_bytes(Slice(bytes, 12, 16)),
                             gas_price |-> from_le_bytes(Slice(bytes, 16, 24)),
                             gas_amount |-> bytes_to_i64(Slice(bytes, 24, 32)),
                             message |-> it.message.v,
                             version |-> from_le_bytes(Slice(bytes, 0, 4))]))

HeaderLen == 80
\* BlockHeader::from_bytes: assert_eq!(bytes.len(), 80)
header_from_bytes(bytes) ==
    IF Len(bytes) # HeaderLen THEN Dec("panic", <<>>)
    ELSE Dec("ok", [time |-> from_le_bytes(Slice(bytes, 68, 72)),
                    previous_hash |-> bytes_to_u256(Slice(bytes, 4, 36)),
                    version |-> from_le_bytes(Slice(bytes, 0, 4)),
                    merkleroot |-> bytes_to_u256(Slice(bytes, 36, 68)),
                    bits |-> from_le_bytes(Slice(bytes, 72, 76)),
                    nonce |-> from_le_bytes(Slice(bytes, 76, 80))])

header_to_bytes(h) ==
    to_le_bytes(h.version, 4) \o u256_to_bytes(h.previous_hash) \o u256_to_bytes(h.merkleroot)
    \o to_le_bytes(h.time, 4) \o to_le_bytes(h.bits, 4) \o to_le_bytes(h.nonce, 4)

BlockFlagInts == {0, 1, 2, 3, 5, 6, 9}
BlockFlagNames ==
    [int \in BlockFlagInts |->
        CASE int = 0 -> "Genesis" [] int = 1 -> "CoinPos" [] int = 2 -> "CapPos" [] int = 3 -> "FlkPos"
          [] int = 5 -> "YesPow" [] int = 6 -> "X11Pow" [] OTHER -> "X16sPow"]
flag_from_int(int) == IF int \in BlockFlagInts THEN Dec("ok", BlockFlagNames[int]) ELSE Dec("err", "")
flag_to_int(flag) == CHOOSE int \in BlockFlagInts : BlockFlagNames[int] = flag

\* an f32 is <<sign, exponent, mantissa>>; its bytes are the IEEE 754 bits,
\* least significant byte first
f32_to_bytes(f) ==
    <<f[3] % 256, (f[3] \div 256) % 256, (f[2] % 2) * 128 + f[3] \div 65536, f[1] * 128 + f[2] \div 2>>
bytes_to_f32(bytes) ==
    <<bytes[4] \div 128, (bytes[4] % 128) * 2 + bytes[3] \div 128,
      (bytes[3] % 128) * 65536 + bytes[2] * 256 + bytes[1]>>
IsNaN(f) == f[2] = 255 /\ f[3] # 0
\* == on f32: a NaN equals nothing, the two zeros are equal
f32_eq(a, b) == ~IsNaN(a) /\ ~IsNaN(b) /\ (a = b \/ (a[2] = 0 /\ a[3] = 0 /\ b[2] = 0 /\ b[3] = 0))

\* the digest stands for the bytes it is taken over
sha256double(bytes) == <<"sha256double", bytes>>
body_hash(body) == sha256double(body_to_bytes(body).v)

\* a signature is single or aggregate, with 33 + 32 + 32 bytes of pubkey, r
\* and s; the aggregate form is written after a discriminator byte 5
SignatureLen == 97
AggregateMark == 5
SignatureData(sig) == sig.data

signature_to_bytes(sig) == IF sig.kind = "Aggregate" THEN <<AggregateMark>> \o sig.data ELSE sig.data
bytes_to_signature(bytes) ==
    IF Len(bytes) = 0 THEN Dec("err", <<>>)
    ELSE IF bytes[1] = AggregateMark
    THEN IF Len(bytes) < SignatureLen + 1 THEN Dec("err", <<>>)
         ELSE Dec("ok", [kind |-> "Aggregate", data |-> SubSeq(bytes, 2, SignatureLen + 1)])
    ELSE IF Len(bytes) < SignatureLen THEN Dec("err", <<>>)
    ELSE Dec("ok", [kind |-> "Single", data |-> SubSeq(bytes, 1, SignatureLen)])

\* the loop of TxRecoded::restore over the signature bytes, from offset pos
RECURSIVE RestoreSignatures(_, _)
RestoreSignatures(sign, pos) ==
    IF pos >= Len(sign) THEN Dec("ok", <<>>)
    ELSE Let(bytes_to_signature(Slice(sign, pos, Len(sign))), LAMBDA sig :
             IF sig.st # "ok" THEN Dec("panic", <<>>)
             ELSE Let(RestoreSignatures(sign, pos + Len(signature_to_bytes(sig.v))), LAMBDA rest :
                      IF rest.st # "ok" THEN rest ELSE Dec("ok", <<sig.v>> \o rest.v)))

TxRecoded(hash, body, signature) == [hash |-> hash, body |-> body, signature |-> signature]
TxVerifiable(hash, body, signature, inputs_cache) ==
    [hash |-> hash, inputs_cache |-> inputs_cache, body |-> body, signature |-> signature]
convert_recoded_tx(tx) == TxRecoded(tx.hash, tx.body, tx.signature)
restore(body, sign) ==
    Let(RestoreSignatures(sign, 0), LAMBDA sig :
        IF sig.st # "ok" THEN sig ELSE Dec("ok", TxRecoded(body_hash(body), body, sig.v)))

Block(work_hash, height, flag, bias, header, txs_hash) ==
    [txs_hash |-> txs_hash, height |-> height, flag |-> flag, work_hash |-> work_hash, bias |-> bias,
     header |-> header]

\* [tx size u32][tx sig size u32][tx_b Xb][tx_sig Xb] of each transaction
RECURSIVE PickleTxs(_, _)
PickleTxs(list, i) ==
    IF i > Len(list) THEN <<>>
    ELSE to_le_bytes(Len(body_to_bytes(list[i].body).v), 4)
         \o to_le_bytes(Len(ConcatEach(list[i].signature, signature_to_bytes, 1)), 4)
         \o body_to_bytes(list[i].body).v \o ConcatEach(list[i].signature, signature_to_bytes, 1)
         \o PickleTxs(list, i + 1)

pickle_full_block(block, list) ==
    IF Len(block.txs_hash) # Len(list) \/ Len(list) = 0 THEN Dec("panic", <<>>)
    ELSE IF \E i \in 1..Len(list) : body_to_bytes(list[i].body).st # "ok" THEN Dec("panic", <<>>)
    ELSE Dec("ok", to_le_bytes(block.height, 4) \o u256_to_bytes(block.work_hash)
                   \o header_to_bytes(block.header) \o <<flag_to_int(block.flag)>>
                   \o f32_to_bytes(block.bias) \o to_le_bytes(Len(list), 4)
                   \o to_le_bytes(Len(list[1].inputs_cache), 4)
                   \o PickleTxs(list, 1) \o ConcatEach(list[1].inputs_cache, output_to_bytes, 1))

\* the loop over the transactions of unpickle_full_block, from offset pos
RECURSIVE UnpickleTxs(_, _, _)
UnpickleTxs(bytes, pos, n) ==
    IF n = 0 THEN Dec("ok", [pos |-> pos, txs |-> <<>>])
    ELSE IF Len(bytes) < pos + 8 THEN Dec("panic", <<>>)
    ELSE IF Len(bytes) < pos + 8 + from_le_bytes(Slice(bytes, pos, pos + 4))
                             + from_le_bytes(Slice(bytes, pos + 4, pos + 8))
    THEN Dec("panic", <<>>)
    ELSE Let(pos + 8 + from_le_bytes(Slice(bytes, pos, pos + 4)), LAMBDA sig_pos :
         Let(sig_pos + from_le_bytes(Slice(bytes, pos + 4, pos + 8)), LAMBDA end :
         Let(body_from_bytes(Slice(bytes, pos + 8, sig_pos)), LAMBDA body :
             IF body.st # "ok" THEN Dec("panic", <<>>)
             ELSE Let(restore(body.v, Slice(bytes, sig_pos, end)), LAMBDA tx :
                  IF tx.st # "ok" THEN Dec("panic", <<>>)
                  ELSE Let(UnpickleTxs(bytes, end, n - 1), LAMBDA rest :
                           IF rest.st # "ok" THEN rest
                           ELSE Dec("ok", [pos |-> rest.v.pos, txs |-> <<tx.v>> \o rest.v.txs]))))))

\* the block of the static part of a pickle and of the hashes given
StaticBlock(bytes, txs_hash) ==
    Block(bytes_to_u256(Slice(bytes, 4, 36)), from_le_bytes(Slice(bytes, 0, 4)),
          flag_from_int(bytes[117]).v, bytes_to_f32(Slice(bytes, 117, 121)),
          header_from_bytes(Slice(bytes, 36, 116)).v, txs_hash)

\* (block, BlockTxs(coinbase, txs)) of unpickle_full_block
unpickle_full_block(bytes) ==
    IF Len(bytes) < 129 THEN Dec("panic", <<>>)
    ELSE IF flag_from_int(bytes[117]).st # "ok" THEN Dec("panic", <<>>)
    ELSE Let(UnpickleTxs(bytes, 129, from_le_bytes(Slice(bytes, 121, 125))), LAMBDA r :
             IF r.st # "ok" \/ Len(r.v.txs) = 0 THEN Dec("panic", <<>>)
             ELSE IF Len(bytes) # r.v.pos + 33 * from_le_bytes(Slice(bytes, 125, 129)) THEN Dec("panic", <<>>)
             ELSE Dec("ok", <<StaticBlock(bytes, [i \in 1..Len(r.v.txs) |-> r.v.txs[i].hash]),
                              <<TxVerifiable(r.v.txs[1].hash, r.v.txs[1].body, r.v.txs[1].signature,
                                             [k \in 1..from_le_bytes(Slice(bytes, 125, 129)) |->
                                                 output_from_bytes(Slice(bytes, r.v.pos + 33 * (k - 1),
                                                                         r.v.pos + 33 * k)).v]),
                                Tail(r.v.txs)>>>>))

\* the loop of unpickle_block: the hash of each body's bytes, the rest skipped
RECURSIVE UnpickleHashes(_, _, _)
UnpickleHashes(bytes, pos, n) ==
    IF n = 0 THEN Dec("ok", [pos |-> pos, txs |-> <<>>])
    ELSE IF Len(bytes) < pos + 8 THEN Dec("panic", <<>>)
    ELSE IF Len(bytes) < pos + 8 + from_le_bytes(Slice(bytes, pos, pos + 4)) THEN Dec("panic", <<>>)
    ELSE Let(pos + 8 + from_le_bytes(Slice(bytes, pos, pos + 4)), LAMBDA sig_pos :
         Let(UnpickleHashes(bytes, sig_pos + from_le_bytes(Slice(bytes, pos + 4, pos + 8)), n - 1), LAMBDA rest :
             IF rest.st # "ok" THEN rest
             ELSE Dec("ok", [pos |-> rest.v.pos,
                             txs |-> <<sha256double(Slice(bytes, pos + 8, sig_pos))>> \o rest.v.txs])))

unpickle_block(bytes) ==
    IF Len(bytes) < 129 THEN Dec("panic", <<>>)
    ELSE IF flag_from_int(bytes[117]).st # "ok" THEN Dec("panic", <<>>)
    ELSE Let(UnpickleHashes(bytes, 129, from_le_bytes(Slice(bytes, 121, 125))), LAMBDA r :
             IF r.st # "ok" THEN Dec("panic", <<>>)
             ELSE IF Len(bytes) # r.v.pos + 33 * from_le_bytes(Slice(bytes, 125, 129)) THEN Dec("panic", <<>>)
             ELSE Dec("ok", StaticBlock(bytes, r.v.txs)))

\* ---- the inputs of the decoders ----
CodecAddress == [i \in 1..21 |-> IF i = 1 THEN 7 ELSE 0]
CodecInputs == {<<>>, <<[vout |-> 1, hash |-> 258]>>}
CodecOutputs == {<<>>, <<[amount |-> 70000, address |-> CodecAddress, coin_id |-> 0]>>}
CodecMessages == {[kind |-> "Nothing", data |-> <<>>], [kind |-> "Plain", data |-> <<104, 105>>],
                  [kind |-> "Byte", data |-> <<255>>], [kind |-> "Byte", data |-> <<>>]}
Bodies ==
    {[inputs |-> i, outputs |-> o, txtype |-> t, time |-> time, deadline |-> 10800,
      gas_price |-> 1, gas_amount |-> g, message |-> m, version |-> 2]
     : t \in Range(TxTypes), time \in {0, 300}, i \in CodecInputs, o \in CodecOutputs,
       g \in {0 - 1, 70000}, m \in CodecMessages}

\* byte strings near the encoding of a body: the encoding itself, and it
\* with another message type, an unknown txtype, one byte less or more
Mutations(s) ==
    {s, SubSeq(s, 1, Len(s) - 1), s \o <<0>>, SetAt(s, 4, 5), SubSeq(s, 1, 38)}
    \cup {SetAt(s, 32, t) : t \in 0..3}
ByteStrings == UNION {Mutations(body_to_bytes(b).v) : b \in {x \in Bodies : x.time = 0 /\ x.gas_amount > 0}}

CodecHeader == [time |-> 300, previous_hash |-> 3, version |-> 1, merkleroot |-> 4, bits |-> 5, nonce |-> 6]
HeaderStrings == {header_to_bytes(CodecHeader), SubSeq(header_to_bytes(CodecHeader), 1, 79),
                  header_to_bytes(CodecHeader) \o <<0>>}

CodecBody == CHOOSE b \in Bodies : b.txtype = "PoW" /\ b.time = 0 /\ b.gas_amount > 0 /\ b.inputs = <<>>
                                   /\ b.outputs # <<>> /\ b.message.kind = "Nothing"
\* ---- the blocks and transactions that are pickled ----
CodecSingle == [kind |-> "Single", data |-> [i \in 1..SignatureLen |-> IF i = 1 THEN 2 ELSE i]]
CodecAggregate == [kind |-> "Aggregate", data |-> [i \in 1..SignatureLen |-> IF i = 1 THEN 3 ELSE 7]]
CodecTransfer == CHOOSE b \in Bodies : b.txtype = "Transfer" /\ b.time = 300 /\ b.gas_amount > 0 /\ b.inputs # <<>>
                                       /\ b.outputs # <<>> /\ b.message.kind = "Plain"
\* a hash that is the hash of no body
OtherHash == sha256double(<<>>)
\* 1.2, 0.0, a NaN
Biases == {<<0, 127, 1677722>>, <<0, 0, 0>>, <<0, 255, 4194304>>}
Coinbases ==
    {TxVerifiable(body_hash(CodecBody), CodecBody, <<>>, cache) : cache \in CodecOutputs}
SignedTxs ==
    {TxVerifiable(hash, CodecTransfer, sig, <<>>) :
        hash \in {body_hash(CodecTransfer), OtherHash},
        sig \in {<<>>, <<CodecSingle>>, <<CodecSingle, CodecAggregate>>, <<CodecAggregate, CodecSingle>>}}
VerifiableLists == {<<c>> : c \in Coinbases} \cup {<<c, t>> : c \in Coinbases, t \in SignedTxs}
HashLists(list) == {[i \in 1..Len(list) |-> body_hash(list[i].body)], [i \in 1..Len(list) |-> OtherHash]}
PickleInputs ==
    UNION {{<<Block(258, 1000, flag, bias, CodecHeader, txs_hash), list>>
            : flag \in {"Genesis", "X16sPow"}, bias \in Biases, txs_hash \in HashLists(list)}
           : list \in VerifiableLists}

CodecBlock == Block(0, 1, "YesPow", <<0, 0, 0>>, CodecHeader, <<body_hash(CodecBody)>>)
Pickles ==
    UNION {{p, SubSeq(p, 1, Len(p) - 1), SubSeq(p, 1, 100), p \o <<0>>, SetAt(p, 116, 4), SetAt(p, 121, 0),
            SetAt(p, 133, 1) \o <<0>>}
           : p \in {pickle_full_block(CodecBlock, <<TxVerifiable(body_hash(CodecBody), CodecBody, <<>>, <<>>)>>).v,
                    pickle_full_block([CodecBlock EXCEPT !.txs_hash = @ \o @],
                                      [i \in 1..2 |-> TxVerifiable(body_hash(CodecBody), CodecBody, <<>>, <<>>)]).v}}

Call(op, input, r, bytes) ==
    /\ io' = [st |-> r.st, input |-> input, op |-> op, out |-> r.v, bytes |-> bytes]
    /\ UNCHANGED <<tables, confirmed, txs, account, best_chain, opts, next_hash, forks, status, lastOp,
                   conflicted, gen, wallet>>

\* b.to_bytes(), then TxBody::from_bytes of the result
BodyEncodeDecode ==
    /\ io.st # "panic"
    /\ \E b \in Bodies : Call("encode_decode", b, body_from_bytes(body_to_bytes(b).v), body_to_bytes(b).v)

\* TxBody::from_bytes(s), then to_bytes() of an accepted body
BodyDecodeEncode ==
    /\ io.st # "panic"
    /\ \E s \in ByteStrings :
        Let(body_from_bytes(s), LAMBDA r :
            Call("decode_encode", s, r, IF r.st = "ok" THEN body_to_bytes(r.v).v ELSE <<>>))

HeaderDecode ==
    /\ io.st # "panic"
    /\ \E s \in HeaderStrings : Call("header_from_bytes", s, header_from_bytes(s), <<>>)

Unpickle ==
    /\ io.st # "panic"
    /\ \E s \in Pickles : Call("unpickle_full_block", s, unpickle_full_block(s), <<>>)

CodecNext == BodyEncodeDecode \/ BodyDecodeEncode \/ HeaderDecode \/ Unpickle
SpecCodec == PoolInit /\ [][CodecNext]_vars

\* pickle_full_block(block, txs), then unpickle_full_block and unpickle_block
\* of the bytes
PickleUnpickle ==
    /\ io.op = "none"
    /\ \E in \in PickleInputs :
        Let(pickle_full_block(in[1], in[2]), LAMBDA p :
            Call("pickle_unpickle", in,
                 IF p.st # "ok" THEN p
                 ELSE IF unpickle_full_block(p.v).st # "ok" THEN unpickle_full_block(p.v)
                 ELSE IF unpickle_block(p.v).st # "ok" THEN unpickle_block(p.v)
                 ELSE Dec("ok", <<unpickle_full_block(p.v).v, unpickle_block(p.v).v>>),
                 p.v))

PickleNext == PickleUnpickle
SpecPickle == PoolInit /\ [][PickleNext]_vars

\* ------------------------------------------------------------------------
\* Compact targets.  A U256 is its 32 bytes, least significant first; bits
\* is a u32 below 2^31 (an exponent of at most 127).
\* ------------------------------------------------------------------------
U256Bytes == 32
MantissaLimit == 8388607
Zeros(n) == [i \in 1..n |-> 0]

\* the low three bytes of a U256, as a number
Low3(t) == t[1] + 256 * t[2] + 65536 * t[3]

ExceedsLimit24(target) == \E i \in 4..U256Bytes : target[i] # 0

\* limit < target, limit = 0x7fffff
ExceedsLimit(target) == (\E i \in 4..U256Bytes : target[i] # 0) \/ Low3(target) > MantissaLimit

\* target after n passes of `target = target / base`
Divided(target, n) == SubSeq(target, n + 1, Len(target)) \o Zeros(n)

\* the passes of the loop: the first n with which the test fails
Passes(target) ==
    CHOOSE n \in 0..Len(target) :
        ~ExceedsLimit(Divided(target, n)) /\ \A m \in 0..(n - 1) : ExceedsLimit(Divided(target, m))

\* while limit < target { target = target / base; exponent += 1; }
TargetToBitsLoop(target, exponent) ==
    (exponent + Passes(target)) * 16777216 + Low3(Divided(target, Passes(target)))

target_to_bits(target) == TargetToBitsLoop(target, 3)

\* mantissa * 256^(exponent - 3), on all the bytes the product has
Product(mantissa, exponent) == Zeros(exponent - 3) \o to_le_bytes(mantissa, 3)

\* bits_to_target; a product of more than 256 bits makes U256's `*` panic
\* or, in a build of the bigint crate that does not check, drop its high bytes
bits_to_target(bits, overflow_panics) ==
    LET exponent == (bits \div 16777216) % 256
        mantissa == bits % (MantissaLimit + 1)
    IN  IF exponent < 3 \/ 33 < exponent THEN Dec("err", <<>>)
        ELSE IF Len(Product(mantissa, exponent)) <= U256Bytes
        THEN Dec("ok", Product(mantissa, exponent) \o Zeros(U256Bytes - Len(Product(mantissa, exponent))))
        ELSE IF \A i \in (U256Bytes + 1)..Len(Product(mantissa, exponent)) : Product(mantissa, exponent)[i] = 0
        THEN Dec("ok", SubSeq(Product(mantissa, exponent), 1, U256Bytes))
        ELSE IF overflow_panics THEN Dec("panic", <<>>)
        ELSE Dec("ok", SubSeq(Product(mantissa, exponent), 1, U256Bytes))

\* ---- the targets and bits the conversions are given ----
TargetPatterns == {<<1>>, <<0, 128>>, <<255, 255>>, <<255, 255, 127>>, <<0, 0, 128>>, <<1, 0, 128>>,
                   <<255, 255, 255>>, <<1, 0, 0, 1>>, <<255, 255, 255, 255>>}
Targets ==
    {Zeros(U256Bytes), [i \in 1..U256Bytes |-> 255]}
    \cup UNION {{Zeros(k) \o p \o Zeros(U256Bytes - k - Len(p)) : k \in 0..(U256Bytes - Len(p))}
                : p \in TargetPatterns}
Mantissas == {0, 1, 32768, 65535, 65536, MantissaLimit}
BitsInputs ==
    {e * 16777216 + b * (MantissaLimit + 1) + m : e \in 0..35 \cup {127}, b \in {0, 1}, m \in Mantissas}

\* target_to_bits(t), then bits_to_target of the result
TargetToBits ==
    /\ io.op = "none"
    /\ \E t \in Targets, overflow_panics \in BOOLEAN :
        Call("target_to_bits", t, bits_to_target(target_to_bits(t), overflow_panics), target_to_bits(t))

\* bits_to_target(bits), then target_to_bits of an Ok result
BitsToTarget ==
    /\ io.op = "none"
    /\ \E bits \in BitsInputs, overflow_panics \in BOOLEAN :
        Let(bits_to_target(bits, overflow_panics), LAMBDA r :
            Call("bits_to_target", bits, r, IF r.st = "ok" THEN target_to_bits(r.v) ELSE 0 - 1))

BitsNext == TargetToBits \/ BitsToTarget
SpecBits == PoolInit /\ [][BitsNext]_vars

\* ------------------------------------------------------------------------
\* DifficultyBuilder.  A chain is the list of its blocks from the tip back
\* to the genesis block, written as runs: <<flag, time, bits>> is one block
\* and <<flag, count>> stands for count blocks of a flavor; the genesis
\* block has height 0, and a hash is the height of its block.  A u32 that may wrap is its 4 bytes and a U512 its 64 bytes, least
\* significant first.
\* ------------------------------------------------------------------------
MAX_BITS == 521142271
MAX_CACHE_SIZE == 200
MAX_SEARCH_BLOCKS == 1000
U32Bytes == 4
U512Bytes == 64
MAX_TARGET == bits_to_target(MAX_BITS, TRUE).v

LowBytes(b, n) == SubSeq(b, 1, n)

\* the halves of a number
LowHalf(a) == SubSeq(a, 1, Len(a) \div 2)
HighHalf(a) == SubSeq(a, Len(a) \div 2 + 1, Len(a))
Front(a) == SubSeq(a, 1, Len(a) - 1)

\* the carry into byte i of a + b + carry: the highest byte below i whose
\* sum is not 255 decides, the carry that came in when there is none
CarryInto(a, b, carry, i) ==
    IF i = 1 THEN carry
    ELSE IF a[i - 1] + b[i - 1] # 255 THEN (a[i - 1] + b[i - 1]) \div 256
    ELSE IF \/ \E j \in 1..(i - 2) : a[j] + b[j] > 255 /\ \A k \in (j + 1)..(i - 2) : a[k] + b[k] = 255
            \/ carry = 1 /\ \A k \in 1..(i - 2) : a[k] + b[k] = 255
    THEN 1 ELSE 0

\* a + b + carry of equal length, followed by the carry out of the last
\* byte; carry is 0 or 1
BigAdd(a, b, carry) ==
    [i \in 1..(Len(a) + 1) |->
        IF i <= Len(a) THEN (a[i] + b[i] + CarryInto(a, b, carry, i)) % 256
        ELSE CarryInto(a, b, carry, i)]

\* a * m + carry for m <= 256, followed by the carry out of the last byte:
\* the low bytes of the products a[i] * m, plus their high bytes one place up
BigMulSmall(a, m, carry) ==
    LowBytes(BigAdd([i \in 1..(Len(a) + 1) |-> IF i <= Len(a) THEN (a[i] * m) % 256 ELSE 0],
                    [i \in 1..(Len(a) + 1) |-> IF i = 1 THEN 0 ELSE (a[i - 1] * m) \div 256],
                    carry), Len(a) + 1)

RECURSIVE BigMul(_, _)
\* a * b on the width of b
BigMul(a, b) ==
    IF Len(a) = 0 THEN Zeros(Len(b))
    ELSE Let(LowBytes(<<0>> \o BigMul(Tail(a), b), Len(b)), LAMBDA high :
         Let(LowBytes(BigMulSmall(b, a[1], 0), Len(b)), LAMBDA low :
             LowBytes(BigAdd(low, high, 0), Len(b))))

RECURSIVE BigDivSmall(_, _, _)
\* the bytes of a / d, most significant first, followed by the remainder;
\* rem is the remainder of the bytes above a, whose high half is divided
\* first
BigDivSmall(a, rem, d) ==
    IF Len(a) = 0 THEN <<rem>>
    ELSE IF Len(a) = 1 THEN <<(rem * 256 + a[1]) \div d, (rem * 256 + a[1]) % d>>
    ELSE IF Len(a) = 2 /\ d < 256
    THEN <<(rem * 65536 + a[2] * 256 + a[1]) \div (d * 256),
           ((rem * 65536 + a[2] * 256 + a[1]) \div d) % 256,
           (rem * 65536 + a[2] * 256 + a[1]) % d>>
    ELSE Let(BigDivSmall(HighHalf(a), rem, d), LAMBDA high :
             Front(high) \o BigDivSmall(LowHalf(a), high[Len(high)], d))

Div(a, d) == Reverse(Front(BigDivSmall(a, 0, d)))

\* a < b on their low i bytes: the highest byte that differs decides
BigLess(a, b, i) == \E j \in 1..i : a[j] < b[j] /\ \A k \in (j + 1)..i : a[k] = b[k]

\* u32 arithmetic: an overflow panics in a build with overflow checks and
\* wraps in a build without
U32Sub(a, b, overflow_checks) ==
    IF b <= a THEN Dec("ok", to_le_bytes(a - b, U32Bytes))
    ELSE IF overflow_checks THEN Dec("panic", <<>>)
    ELSE Dec("ok", Complement(to_le_bytes(b - a - 1, U32Bytes)))

U32Mul(a, j, overflow_checks) ==
    IF BigMulSmall(a, j, 0)[U32Bytes + 1] = 0 \/ ~overflow_checks
    THEN Dec("ok", LowBytes(BigMulSmall(a, j, 0), U32Bytes))
    ELSE Dec("panic", <<>>)

U32Add(a, b, overflow_checks) ==
    IF BigAdd(a, b, 0)[U32Bytes + 1] = 0 \/ ~overflow_checks
    THEN Dec("ok", LowBytes(BigAdd(a, b, 0), U32Bytes))
    ELSE Dec("panic", <<>>)

\* the smallest height of the cache
MinHeight(cache) == CHOOSE m \in cache : \A h \in cache : m <= h

\* get_header_ref(hash) of a block of the given height, on a cache of the
\* heights it holds: the cache after the call; "none" when Tables does not
\* hold the block, "panic" when the entry to return was the one evicted
get_header_ref(cache, height) ==
    IF height < 0 THEN [st |-> "none", cache |-> cache]
    ELSE IF MAX_CACHE_SIZE <= Cardinality(cache \cup {height})
    THEN IF height \in (cache \cup {height}) \ {MinHeight(cache \cup {height})}
         THEN [st |-> "ok", cache |-> (cache \cup {height}) \ {MinHeight(cache \cup {height})}]
         ELSE [st |-> "panic", cache |-> (cache \cup {height}) \ {MinHeight(cache \cup {height})}]
    ELSE [st |-> "ok", cache |-> cache \cup {height}]

\* get_header_ref of each of the count blocks from height top down, in a
\* walk that began on an empty cache: every height of the cache is above top,
\* the entry inserted is the smallest, and the call that fills the cache to
\* MAX_CACHE_SIZE evicts the entry it is about to return
GetHeaderRefs(cache, top, count) ==
    IF count = 0 THEN [st |-> "ok", cache |-> cache]
    ELSE IF MAX_CACHE_SIZE <= Cardinality(cache) + count THEN [st |-> "panic", cache |-> cache]
    ELSE [st |-> "ok", cache |-> cache \cup ((top - count + 1)..top)]

WalkOut(how, timestamps, targets) == <<how, timestamps, targets>>

RunLen(run) == IF Len(run) = 2 THEN run[2] ELSE 1

RECURSIVE ChainLen(_)
ChainLen(runs) == IF Len(runs) = 0 THEN 0 ELSE RunLen(runs[1]) + ChainLen(Tail(runs))

\* the variables of the search loop of calc_next_bits: p iterations done,
\* run r next, whose first block has the given height
WalkAt(runs, r, p, height, cache, j, timestamps, targets) ==
    <<runs, r, p, height, cache, j, timestamps, targets>>

\* one pass of the search loop from s: the variables after it, or how the
\* loop ended ("breaked", "exhausted", "root", "err", "panic") with what it
\* collected.  A run <<flag, count>> is of a flavor other than the one
\* asked for and is passed in one step.
WalkStep(s, flag, N, overflow_panics) ==
    IF s[3] >= MAX_SEARCH_BLOCKS THEN WalkOut("exhausted", s[7], s[8])
    ELSE IF s[2] > Len(s[1]) THEN WalkOut("root", s[7], s[8])
    ELSE IF Len(s[1][s[2]]) = 2
    THEN Let(IF s[1][s[2]][2] < MAX_SEARCH_BLOCKS - s[3] THEN s[1][s[2]][2] ELSE MAX_SEARCH_BLOCKS - s[3],
             LAMBDA steps :
         Let(GetHeaderRefs(s[5], s[4], steps), LAMBDA result :
            IF result.st = "panic" THEN WalkOut("panic", s[7], s[8])
            ELSE WalkAt(s[1], s[2] + 1, s[3] + steps, s[4] - steps, result.cache, s[6], s[7], s[8])))
    ELSE Let(get_header_ref(s[5], s[4]), LAMBDA result :
        IF result.st = "panic" THEN WalkOut("panic", s[7], s[8])
        ELSE IF s[1][s[2]][1] # flag
        THEN WalkAt(s[1], s[2] + 1, s[3] + 1, s[4] - 1, result.cache, s[6], s[7], s[8])
        ELSE IF s[6] = N + 1 THEN WalkOut("breaked", s[7], s[8])
        ELSE Let(bits_to_target(s[1][s[2]][3], overflow_panics), LAMBDA target :
            IF target.st # "ok" THEN WalkOut(target.st, s[7], s[8])
            ELSE IF s[4] = 0
            THEN WalkOut("root", <<s[1][s[2]][2]>> \o s[7], <<target.v>> \o s[8])
            ELSE WalkAt(s[1], s[2] + 1, s[3] + 1, s[4] - 1, result.cache, s[6] + 1,
                        <<s[1][s[2]][2]>> \o s[7], <<target.v>> \o s[8])))

RECURSIVE Walk(_, _, _, _)
\* the search loop of calc_next_bits from s to its end
Walk(s, flag, N, overflow_panics) ==
    IF Len(s) = 3 THEN s ELSE Walk(WalkStep(s, flag, N, overflow_panics), flag, N, overflow_panics)

RECURSIVE LwmaLoop(_, _, _, _, _, _, _)
\* for i in 0..N: t and sum_target after the loop, <<t, sum_target>>
LwmaLoop(timestamps, targets, i, N, t, sum_target, overflow_checks) ==
    IF i = N THEN Dec("ok", <<t, sum_target>>)
    ELSE Let(U32Sub(timestamps[i + 2], timestamps[i + 1], overflow_checks), LAMBDA solve_time :
        IF solve_time.st # "ok" THEN Dec("panic", <<>>)
        ELSE Let(U32Mul(solve_time.v, i + 1, overflow_checks), LAMBDA weighted :
            IF weighted.st # "ok" THEN Dec("panic", <<>>)
            ELSE Let(U32Add(t, weighted.v, overflow_checks), LAMBDA sum :
                IF sum.st # "ok" THEN Dec("panic", <<>>)
                ELSE LwmaLoop(timestamps, targets, i + 1, N, sum.v,
                              LowBytes(BigAdd(sum_target, targets[i + 2] \o Zeros(U512Bytes - U256Bytes), 0),
                                           U512Bytes),
                              overflow_checks))))

\* if t < N * K / 3 { t = N * K / 3; }
Raised(t, N, K) ==
    IF BigLess(t, to_le_bytes((N * K) \div 3, U32Bytes), U32Bytes)
    THEN to_le_bytes((N * K) \div 3, U32Bytes) ELSE t

\* U512::from(t) * sum_target / K / N / N
NewTarget(t, sum_target, N, K) ==
    Let(BigMul(t, sum_target), LAMBDA product :
    Let(Div(product, K), LAMBDA by_k :
    Let(Div(by_k, N), LAMBDA by_n : Div(by_n, N))))

\* the bits of the new target, with the t they were computed from
BitsOut(bits, t) == <<bits, t>>

\* from the loop's t and sum_target to the returned bits; U256::from(U512)
\* of more than 256 bits panics or, in a build of the bigint crate that does
\* not check, drops the high bytes
Lwma(timestamps, targets, N, K, overflow_checks, overflow_panics) ==
    Let(LwmaLoop(timestamps, targets, 0, N, Zeros(U32Bytes), Zeros(U512Bytes), overflow_checks), LAMBDA loop :
        IF loop.st # "ok" THEN Dec("panic", BitsOut(0, <<>>))
        ELSE Let(NewTarget(Raised(loop.v[1], N, K), loop.v[2], N, K), LAMBDA new_target :
            IF overflow_panics /\ \E i \in (U256Bytes + 1)..U512Bytes : new_target[i] # 0
            THEN Dec("panic", BitsOut(0, Raised(loop.v[1], N, K)))
            ELSE IF BigLess(MAX_TARGET, new_target, U256Bytes)
            THEN Dec("ok", BitsOut(MAX_BITS, Raised(loop.v[1], N, K)))
            ELSE Dec("ok", BitsOut(target_to_bits(LowBytes(new_target, U256Bytes)),
                                   Raised(loop.v[1], N, K)))))

\* (flag, T, N, K) of each flavor
ParamN == 2
ParamK == 60
BlockTimeParams == {<<"YesPow", 60, ParamN, ParamK>>, <<"CoinPos", 60, ParamN + 1, ParamK>>}
ParamsOf(flag) == CHOOSE p \in BlockTimeParams : p[1] = flag

\* calc_next_bits(previous_hash, flag) of a new DifficultyBuilder;
\* previous_hash is the tip of the chain, GENESIS_PREVIOUS_HASH when the
\* chain has no block
calc_next_bits(runs, flag, overflow_checks, overflow_panics) ==
    IF ChainLen(runs) = 0 THEN Dec("ok", BitsOut(MAX_BITS, <<>>))
    ELSE Let(Walk(WalkAt(runs, 1, 0, ChainLen(runs) - 1, {}, 0, <<>>, <<>>), flag, ParamsOf(flag)[3],
                  overflow_panics),
             LAMBDA walk :
        IF walk[1] \in {"err", "panic"} THEN Dec(walk[1], BitsOut(0, <<>>))
        ELSE IF walk[1] = "root" THEN Dec("ok", BitsOut(MAX_BITS, <<>>))
        ELSE IF walk[1] = "exhausted" /\ Len(walk[3]) < 2 THEN Dec("ok", BitsOut(MAX_BITS, <<>>))
        ELSE Lwma(walk[2], walk[3],
                  IF walk[1] = "breaked" THEN ParamsOf(flag)[3] ELSE Len(walk[2]) - 1,
                  ParamsOf(flag)[4], overflow_checks, overflow_panics))

\* ---- calc_next_bias ----
BiasN == 30
U64Bytes == 8
\* the working width of a U512 division: a remainder times 256 fits
DivBytes == 66
One == <<0, 127, 0>>

\* MAX: U256::from of the big-endian bytes [255, 255, 0, ..., 0], as a U512
MAX == Zeros(U256Bytes - 2) \o <<255, 255>> \o Zeros(U512Bytes - U256Bytes)

\* the borrow into byte i of a - b - borrow: the highest byte below i
\* where a and b differ decides, the borrow that came in when there is none
BorrowInto(a, b, borrow, i) ==
    IF i = 1 THEN borrow
    ELSE IF a[i - 1] # b[i - 1] THEN (IF a[i - 1] < b[i - 1] THEN 1 ELSE 0)
    ELSE IF \/ \E j \in 1..(i - 2) : a[j] < b[j] /\ \A k \in (j + 1)..(i - 2) : a[k] = b[k]
            \/ borrow = 1 /\ \A k \in 1..(i - 2) : a[k] = b[k]
    THEN 1 ELSE 0

\* a - b - borrow of equal length, b + borrow <= a; borrow is 0 or 1
BigSub(a, b, borrow) == [i \in 1..Len(a) |-> (a[i] - b[i] - BorrowInto(a, b, borrow, i) + 256) % 256]

Times(b, d) == LowBytes(BigMulSmall(b, d, 0), Len(b))

\* the byte d with d * b <= cur < (d + 1) * b, for cur < 256 * b
QuotientByte(cur, b) ==
    CHOOSE d \in 0..255 : ~BigLess(cur, Times(b, d), DivBytes) /\ BigLess(cur, Times(b, d + 1), DivBytes)

RECURSIVE BigDivLoop(_, _, _, _)
\* the bytes i..1 of a / b, most significant first, rem being the
\* remainder of the bytes above i; b is DivBytes wide
BigDivLoop(a, i, rem, b) ==
    IF i = 0 THEN <<>>
    ELSE Let(<<a[i]>> \o LowBytes(rem, DivBytes - 1), LAMBDA cur :
         Let(QuotientByte(cur, b), LAMBDA d :
            <<d>> \o BigDivLoop(a, i - 1, BigSub(cur, Times(b, d), 0), b)))

\* the index of the highest nonzero byte
TopIndex(b) == CHOOSE h \in 1..Len(b) : b[h] # 0 /\ \A i \in (h + 1)..Len(b) : b[i] = 0

\* the number of low bytes of a / b that can be nonzero: the bytes of a
\* above them are, as a number, below b
QuotientBytes(a, b) ==
    IF \A i \in 1..Len(a) : a[i] = 0 THEN 0
    ELSE IF TopIndex(a) < TopIndex(b) THEN 0 ELSE TopIndex(a) - TopIndex(b) + 1

\* U512 / U512; a division by zero panics
BigDiv(a, b) ==
    IF \A i \in 1..Len(b) : b[i] = 0 THEN Dec("panic", <<>>)
    ELSE Let(QuotientBytes(a, b), LAMBDA n :
        Dec("ok", Reverse(BigDivLoop(a, n, SubSeq(a, n + 1, Len(a)) \o Zeros(DivBytes - Len(a) + n),
                                     b \o Zeros(DivBytes - Len(b))))
                  \o Zeros(Len(a) - n)))

\* the number of bits of a nonzero byte
BitLen(x) == CHOOSE n \in 1..8 : 2 ^ (n - 1) <= x /\ x < 2 ^ n

\* the 24 leading bits of a value with nonzero bytes at h and above 3,
\* then the bits of byte h - 3 that follow them
Leading24(b, h) ==
    (b[h] * 65536 + b[h - 1] * 256 + b[h - 2]) * 2 ^ (8 - BitLen(b[h])) + b[h - 3] \div 2 ^ BitLen(b[h])
Following(b, h) == b[h - 3] % 2 ^ BitLen(b[h])

\* round to nearest, ties to even
RoundsUp(b, h) ==
    \/ 2 * Following(b, h) > 2 ^ BitLen(b[h])
    \/ /\ 2 * Following(b, h) = 2 ^ BitLen(b[h])
       /\ (\E i \in 1..(h - 4) : b[i] # 0) \/ Leading24(b, h) % 2 = 1

\* `as f32` of a u64
U64ToF32(b) ==
    IF \A i \in 1..Len(b) : b[i] = 0 THEN <<0, 0, 0>>
    ELSE Let(TopIndex(b), LAMBDA h :
        IF h <= 3
        THEN Let(from_le_bytes(LowBytes(b, 3)), LAMBDA v :
             Let(CHOOSE n \in 1..24 : 2 ^ (n - 1) <= v /\ v < 2 ^ n, LAMBDA n :
                <<0, 127 + n - 1, (v - 2 ^ (n - 1)) * 2 ^ (24 - n)>>))
        ELSE Let(127 + 8 * (h - 1) + BitLen(b[h]) - 1, LAMBDA exponent :
            IF ~RoundsUp(b, h) THEN <<0, exponent, Leading24(b, h) - 8388608>>
            ELSE IF Leading24(b, h) + 1 = 16777216 THEN <<0, exponent + 1, 0>>
            ELSE <<0, exponent, Leading24(b, h) + 1 - 8388608>>))

\* f / 4294967296f32 of a zero or of a normal f of at least 1
Div2Pow32(f) == IF f[2] = 0 THEN f ELSE <<f[1], f[2] - 32, f[3]>>

\* int.as_u64() as f32 / 4294967296f32; as_u64 of more than 64 bits panics
\* or, in a build of the bigint crate that does not check, drops the high bytes
AsBias(int, overflow_panics) ==
    IF overflow_panics /\ \E i \in (U64Bytes + 1)..Len(int) : int[i] # 0 THEN Dec("panic", <<>>)
    ELSE Dec("ok", Div2Pow32(U64ToF32(LowBytes(int, U64Bytes))))

HasFlag(others_best, flag) == \E i \in 1..Len(others_best) : others_best[i][1] = flag

BiasWalkOut(how, others_best, target_sum, target_cnt) == <<how, others_best, target_sum, target_cnt>>

\* the variables of the search loop of calc_next_bias: p iterations done,
\* run r next, whose first block has the given height; others_best is the
\* list of its <<flag, target>> entries
BiasAt(runs, r, p, height, cache, others_best, target_sum, target_cnt) ==
    <<runs, r, p, height, cache, others_best, target_sum, target_cnt>>

\* the run at r as the block it begins with, and the runs after that block
BiasMeta(s) == IF Len(s[1][s[2]]) = 2 THEN <<s[1][s[2]][1], 0, MAX_BITS>> ELSE s[1][s[2]]
BiasRest(s) ==
    IF Len(s[1][s[2]]) = 2 THEN [s[1] EXCEPT ![s[2]] = <<s[1][s[2]][1], s[1][s[2]][2] - 1>>]
    ELSE [s[1] EXCEPT ![s[2]] = <<s[1][s[2]][1], 0>>]

\* one pass of the search loop from s: the variables after it, or how the
\* loop ended ("break", "exhausted", "root", "err", "panic") with
\* others_best, target_sum and target_cnt.  A run <<flag, count>> is of a
\* flavor other than the one asked for; its blocks after the first leave
\* others_best as it is, so they all continue or the first of them breaks.
BiasStep(s, flag, overflow_panics) ==
    IF s[3] >= MAX_SEARCH_BLOCKS \/ s[2] > Len(s[1])
    THEN BiasWalkOut(IF s[3] >= MAX_SEARCH_BLOCKS THEN "exhausted" ELSE "root", s[6], s[7], s[8])
    ELSE IF Len(s[1][s[2]]) = 2 /\ s[1][s[2]][2] = 0
    THEN BiasAt(s[1], s[2] + 1, s[3], s[4], s[5], s[6], s[7], s[8])
    ELSE IF Len(s[1][s[2]]) = 2 /\ HasFlag(s[6], s[1][s[2]][1])
            /\ Cardinality(BlockTimeParams) > Len(s[6]) + 1
    THEN Let(IF s[1][s[2]][2] < MAX_SEARCH_BLOCKS - s[3] THEN s[1][s[2]][2] ELSE MAX_SEARCH_BLOCKS - s[3],
             LAMBDA steps :
         Let(GetHeaderRefs(s[5], s[4], steps), LAMBDA result :
            IF result.st = "panic" THEN BiasWalkOut("panic", s[6], s[7], s[8])
            ELSE IF s[4] - steps + 1 = 0 THEN BiasWalkOut("root", s[6], s[7], s[8])
            ELSE BiasAt([s[1] EXCEPT ![s[2]] = <<s[1][s[2]][1], s[1][s[2]][2] - steps>>], s[2], s[3] + steps,
                        s[4] - steps, result.cache, s[6], s[7], s[8])))
    ELSE Let(BiasMeta(s), LAMBDA meta :
         Let(get_header_ref(s[5], s[4]), LAMBDA result :
         Let(bits_to_target(meta[3], overflow_panics), LAMBDA target :
            IF result.st = "panic" THEN BiasWalkOut("panic", s[6], s[7], s[8])
            ELSE IF target.st # "ok" /\ (~HasFlag(s[6], meta[1])
                                          \/ (s[4] # 0 /\ meta[1] = flag /\ BiasN > s[8]))
            THEN BiasWalkOut(target.st, s[6], s[7], s[8])
            ELSE Let(IF HasFlag(s[6], meta[1]) THEN s[6] ELSE Append(s[6], <<meta[1], target.v>>),
                     LAMBDA best :
                IF s[4] = 0 THEN BiasWalkOut("root", best, s[7], s[8])
                ELSE IF meta[1] = flag /\ BiasN > s[8]
                THEN BiasAt(BiasRest(s), s[2], s[3] + 1, s[4] - 1, result.cache, best,
                            LowBytes(BigAdd(s[7], Times(target.v \o Zeros(U512Bytes - U256Bytes), BiasN - s[8]),
                                            0), U512Bytes),
                            s[8] + 1)
                ELSE IF Cardinality(BlockTimeParams) <= Len(best) + 1
                THEN BiasWalkOut("break", best, s[7], s[8])
                ELSE BiasAt(BiasRest(s), s[2], s[3] + 1, s[4] - 1, result.cache, best, s[7], s[8])))))

RECURSIVE BiasWalk(_, _, _)
\* the search loop of calc_next_bias from s to its end
BiasWalk(s, flag, overflow_panics) ==
    IF Len(s) = 4 THEN s ELSE BiasWalk(BiasStep(s, flag, overflow_panics), flag, overflow_panics)

RECURSIVE SumTargets(_)
\* the sum of the targets of others_best, as a U512
SumTargets(others_best) ==
    IF Len(others_best) = 0 THEN Zeros(U512Bytes)
    ELSE LowBytes(BigAdd(others_best[1][2] \o Zeros(U512Bytes - U256Bytes), SumTargets(Tail(others_best)), 0),
                  U512Bytes)

\* average_target = sum / others_best.len()
AverageTarget(others_best) == Div(SumTargets(others_best), Len(others_best))

\* the bias with the others_best it was computed from
BiasOut(bias, others_best) == <<bias, others_best>>

\* numerator * target_cnt / target_sum [* 0x100000000], then as_u64 as f32 / 2^32
BiasOf(numerator, target_cnt, target_sum, shifted, others_best, overflow_panics) ==
    Let(BigDiv(Times(numerator, target_cnt), target_sum), LAMBDA quotient :
        IF quotient.st # "ok" THEN Dec("panic", BiasOut(One, others_best))
        ELSE Let(AsBias(IF shifted THEN LowBytes(Zeros(4) \o quotient.v, U512Bytes) ELSE quotient.v,
                        overflow_panics), LAMBDA bias :
            Dec(bias.st, BiasOut(IF bias.st = "ok" THEN bias.v ELSE One, others_best))))

\* calc_next_bias(previous_hash, flag) of a new DifficultyBuilder
calc_next_bias(runs, flag, overflow_panics) ==
    IF flag = "Genesis" \/ ChainLen(runs) = 0 THEN Dec("ok", BiasOut(One, <<>>))
    ELSE Let(BiasWalk(BiasAt(runs, 1, 0, ChainLen(runs) - 1, {}, <<>>, Zeros(U512Bytes), 0), flag,
                      overflow_panics),
             LAMBDA walk :
        IF walk[1] \in {"err", "panic"} THEN Dec(walk[1], BiasOut(One, walk[2]))
        ELSE IF walk[1] = "root" \/ walk[4] = 0 THEN Dec("ok", BiasOut(One, walk[2]))
        ELSE IF Len(walk[2]) = 0 THEN BiasOf(MAX, walk[4], walk[3], FALSE, walk[2], overflow_panics)
        ELSE BiasOf(AverageTarget(walk[2]), walk[4], walk[3], TRUE, walk[2], overflow_panics))

\* ---- the chains calc_next_bits is given ----
\* a chain is written as runs: <<flag, count>> stands for count blocks of
\* the flavor, <<flag, time, bits>> for one block
MaxRun == 199
\* MAX_BITS with an exponent smaller by one
LowBits == MAX_BITS - (MantissaLimit + 1) * 2
RunCounts == {0, 1, MaxRun, MaxRun + 1}
RootCounts == {1, MaxRun + 1}
HeaderTimes == {940, 1000, 1060, 100000}
MaxOwn == 4

RECURSIVE Expand(_)
Expand(runs) ==
    IF Len(runs) = 0 THEN <<>>
    ELSE IF Len(runs[1]) = 2 THEN [i \in 1..runs[1][2] |-> <<runs[1][1], 0, MAX_BITS>>] \o Expand(Tail(runs))
    ELSE <<runs[1]>> \o Expand(Tail(runs))

Chains ==
    {<<>>} \cup
    UNION {{<<<<"CoinPos", tip>>>> \o [i \in 1..k |-> <<"YesPow", times[i], bits>>] \o <<<<"CoinPos", root>>>>
            : tip \in RunCounts, root \in RootCounts, times \in [1..k -> HeaderTimes], bits \in {MAX_BITS, LowBits}}
           : k \in 0..MaxOwn}

CalcNextBits ==
    /\ io.op = "none"
    /\ \E runs \in Chains, overflow_checks \in BOOLEAN, overflow_panics \in BOOLEAN :
        Call("calc_next_bits", runs, calc_next_bits(runs, "YesPow", overflow_checks, overflow_panics),
             <<>>)

\* the chains calc_next_bias is given: the times do not enter the bias
BiasChains ==
    UNION {{<<<<"CoinPos", tip>>>> \o [i \in 1..k |-> <<"YesPow", 1000, bits[i]>>] \o <<<<"CoinPos", root>>>>
            : tip \in {0, 1}, root \in RootCounts, bits \in [1..k -> {MAX_BITS, LowBits}]}
           : k \in 0..MaxOwn}

CalcNextBias ==
    /\ io.op = "none"
    /\ \E runs \in BiasChains \cup {<<>>}, flag \in {"YesPow", "CoinPos", "Genesis"}, overflow_panics \in BOOLEAN :
        Call("calc_next_bias", <<runs, flag>>, calc_next_bias(runs, flag, overflow_panics), <<>>)

\* the caches get_header_ref is called on: the heights a walk has read,
\* of every occupancy a cache has between two calls
CacheLows == {1, 2, 50}
CacheSizes == {0, 1, MAX_CACHE_SIZE - 2, MAX_CACHE_SIZE - 1}

\* get_header_ref(hash) of the block of a height; Tables holds the blocks
\* of the heights from 0 on
GetHeaderRef ==
    /\ io.op = "none"
    /\ \E low \in CacheLows, size \in CacheSizes :
        \E height \in {0 - 1, low - 1, low, low + size} :
            Let(get_header_ref(low..(low + size - 1), height), LAMBDA result :
                Call("get_header_ref", <<low..(low + size - 1), height>>, Dec(result.st, result.cache), <<>>))

DiffNext == CalcNextBits \/ CalcNextBias \/ GetHeaderRef
SpecDiff == PoolInit /\ [][DiffNext]_vars

\* ------------------------------------------------------------------------
\* PosWorker.update_by_new_block.  An unspent output of the account is
\* <<coin_id, address version, amount, tx_height>>, tx_height being what
\* chain.get_tx_height gives for its producing tx: <<"some", height>>,
\* <<"none">> (unconfirmed) or <<"err">> (not found).
\* ------------------------------------------------------------------------
MATURE_HEIGHT == 20
StakeLimit == 5000
MinStake == 100000000
BlockReward == 50

\* the staking coinbase of an unspent output: its position as the input,
\* the amount of the PoS output, and the staked amount
StakeOf(i, output) == <<i, output[3] + BlockReward, output[3]>>

\* if new_block.height + 1 <= height + MATURE_HEIGHT { continue; }
Immature(height, new_height) == new_height + 1 <= height + MATURE_HEIGHT

RECURSIVE StakeLoop(_, _, _, _, _)
\* for (input, output) in chain.get_account_unspent_iter(), from position i
StakeLoop(unspents, i, new_height, limit, unspent) ==
    IF i > Len(unspents) THEN unspent
    ELSE IF unspents[i][1] # 0 \/ unspents[i][2] # 0 \/ unspents[i][3] < MinStake
    THEN StakeLoop(unspents, i + 1, new_height, limit, unspent)
    ELSE IF unspents[i][4][1] # "some"
    THEN StakeLoop(unspents, i + 1, new_height, limit, unspent)
    ELSE IF Immature(unspents[i][4][2], new_height)
    THEN StakeLoop(unspents, i + 1, new_height, limit, unspent)
    ELSE IF limit = 0 THEN Append(unspent, StakeOf(i, unspents[i]))
    ELSE StakeLoop(unspents, i + 1, new_height, limit - 1, Append(unspent, StakeOf(i, unspents[i])))

\* the worker after update_by_new_block: <<coinbase, previous_hash, bits>>
pos_update_by_new_block(unspents, new_height, new_hash, new_bits) ==
    <<StakeLoop(unspents, 1, new_height, StakeLimit, <<>>), new_hash, new_bits>>

\* ---- the unspent outputs and blocks the worker is given ----
MaxUnspent == 2
MaxTxHeight == 2
TxHeights == {<<"none">>, <<"err">>} \cup {<<"some", h>> : h \in 0..MaxTxHeight}
Unspents == {<<coin_id, ver, amount, h>> :
                coin_id \in {0, 1}, ver \in {0, 1}, amount \in {MinStake - 1, MinStake}, h \in TxHeights}
NewHeights == (MATURE_HEIGHT - 2)..(MATURE_HEIGHT + MaxTxHeight)

PosUpdateByNewBlock ==
    /\ io.op = "none"
    /\ \E n \in 1..MaxUnspent : \E unspents \in [1..n -> Unspents], new_height \in NewHeights :
        Call("update_by_new_block", <<unspents, new_height>>,
             Dec("ok", pos_update_by_new_block(unspents, new_height, new_height, MAX_BITS)), <<>>)

StakeNext == PosUpdateByNewBlock
SpecStake == PoolInit /\ [][StakeNext]_vars

\* ------------------------------------------------------------------------
\* Account: update_by_tx and get_new_address on account 0.  io.out holds
\* the addresses of the transactions update_by_tx has accepted so far.
\* ------------------------------------------------------------------------
RECURSIVE get_new_address(_, _, _)
\* get_new_address(new, cur): [account, cur, index], index being the
\* position in listen_outer of the address returned
get_new_address(acc, new, cur) ==
    Let(IF new \/ acc.unused_index = 0 THEN acc.unused_index ELSE acc.unused_index - 1, LAMBDA index :
        IF index < acc.listen_outer
        THEN IF new
             THEN Let([acc EXCEPT !.unused_index = @ + 1, !.listen_outer = @ + 1, !.changed = TRUE],
                      LAMBDA grown :
                      [account |-> grown, cur |-> write_account_state(cur, [grown EXCEPT !.changed = FALSE]),
                       index |-> index])
             ELSE [account |-> acc, cur |-> cur, index |-> index]
        ELSE get_new_address([acc EXCEPT !.listen_outer = @ + PRE_FETCH_ADDR_LEN, !.changed = TRUE],
                             new, cur))

\* ---- the transactions and calls the account is given ----
MaxUnusedIndex == 2
AddrIndexes == {PRE_FETCH_ADDR_LEN - 1, PRE_FETCH_ADDR_LEN + 5}
AccountAddrs == {derive_address(inner, idx) : inner \in BOOLEAN, idx \in AddrIndexes} \cup {ExtAddr(0)}
\* transactions whose fee is gas_amount * gas_price
AccountTxs ==
    {MkTx(1, "Transfer", 1, 10, [i \in 1..Len(ins) |-> MkInput(G, 0)],
          [i \in 1..Len(ins) |-> MkOutput(ins[i], 1)], [i \in 1..Len(outs) |-> MkOutput(outs[i], 1)],
          1, Len(ins) - Len(outs))
     : ins \in [1..0 -> AccountAddrs] \cup [1..1 -> AccountAddrs],
       outs \in [1..1 -> AccountAddrs] \cup [1..2 -> AccountAddrs]}

AddrsOf(tx) == {tx.inputs_cache[i].addr : i \in 1..Len(tx.inputs_cache)}
               \cup {tx.outputs[i].addr : i \in 1..Len(tx.outputs)}

\* what a call of the account leaves behind
AccountLeave(op, input, st, acc, cur, seen) ==
    /\ io' = [st |-> st, input |-> input, op |-> op, out |-> seen, bytes |-> <<>>]
    /\ account' = acc
    /\ tables' = cur
    /\ UNCHANGED <<confirmed, txs, best_chain, opts, next_hash, forks, status, lastOp, conflicted,
                   gen, wallet>>

Seen == IF io.op = "none" THEN {} ELSE io.out

AccountUpdateByTx ==
    /\ io.st # "panic"
    /\ \E tx \in AccountTxs :
        Let(update_by_tx(account, tx, tables), LAMBDA r :
            AccountLeave("update_by_tx", tx, r.st, r.account, r.cur,
                         IF r.st = "ok" THEN Seen \cup AddrsOf(tx) ELSE Seen))

AccountGetNewAddress ==
    /\ io.st # "panic"
    /\ account.unused_index < MaxUnusedIndex
    /\ \E new \in BOOLEAN :
        Let(get_new_address(account, new, tables), LAMBDA r :
            AccountLeave("get_new_address", new, "ok", r.account, r.cur, Seen))

AccountNext == AccountUpdateByTx \/ AccountGetNewAddress
SpecAccount == PoolInit /\ [][AccountNext]_vars

\* ------------------------------------------------------------------------
\* PowWorker: header.bits and the span queue of (count, time) pairs.  Times
\* are whole units and power_limit is 255, so that virtual_span = real_span.
\* ------------------------------------------------------------------------
SpanLimit == 100
SpanStart == 10
DefaultCount == 100
MinCount == 10
Durations == {1, 2}

\* PowWorker::new: bits is 0 until update_by_new_block
PowWorkerNew == [bits |-> 0, span |-> <<>>]

RECURSIVE SpanSum(_, _, _, _)
\* the sums of the loop over span entries lo..hi (entry j is index j - 1 of
\* the VecDeque): fixed adds count * i, real adds count * i * (time - before_time)
SpanSum(span, lo, hi, real) ==
    IF lo > hi THEN 0
    ELSE IF lo = hi
    THEN span[lo][1] * (lo - 1) * (IF real THEN span[lo][2] - span[lo - 1][2] ELSE 1)
    ELSE SpanSum(span, lo, (lo + hi) \div 2, real) + SpanSum(span, (lo + hi) \div 2 + 1, hi, real)

\* `find good count number`: [st, v]
find_count(span) ==
    IF SpanStart < Len(span)
    THEN IF \E j \in 2..Len(span) : ~(span[j - 1][2] <= span[j][2]) THEN Dec("panic", 0)
         ELSE Let((span[Len(span)][1] * SpanSum(span, 2, Len(span), TRUE))
                      \div SpanSum(span, 2, Len(span), FALSE),
                  LAMBDA fixed_count : Dec("ok", IF MinCount > fixed_count THEN MinCount ELSE fixed_count))
    ELSE Dec("ok", DefaultCount)

\* generate: found says that one of the count hashes is below the target,
\* real_span is the time the tick took; [st, worker, ret, count]
generate(worker, found, real_span) ==
    Let(find_count(worker.span), LAMBDA c :
        IF c.st # "ok" \/ bits_to_target(worker.bits, TRUE).st # "ok"
        THEN [st |-> "panic", worker |-> worker, ret |-> "panic", count |-> c.v]
        ELSE IF found THEN [st |-> "ok", worker |-> worker, ret |-> "PoW", count |-> c.v]
        ELSE Let(Append(worker.span, <<c.v, real_span>>), LAMBDA pushed :
                 [st |-> "ok",
                  worker |-> [worker EXCEPT !.span = IF SpanLimit < Len(pushed) THEN Tail(pushed) ELSE pushed],
                  ret |-> "NotFoundWork", count |-> c.v]))

PowInit ==
    /\ tables = [EmptyTables EXCEPT !.account_state = <<AccountNew>>]
    /\ confirmed = ConfirmedNew(GENESIS_PREVIOUS_HASH)
    /\ txs = <<>>
    /\ account = AccountNew
    /\ best_chain = <<>>
    /\ opts = [tx_index |-> FALSE, addr_index |-> FALSE]
    /\ next_hash = GenesisHash
    /\ forks = 0
    /\ status = "ok"
    /\ lastOp = [op |-> "new", ret |-> "Ok", hashes |-> {}, block |-> 0, fail |-> "none"]
    /\ conflicted = {}
    /\ gen = PowWorkerNew
    /\ io = NoCall
    /\ wallet = AccountBuilderNew

PowLeave(op, input, st, worker, ret, count) ==
    /\ gen' = worker
    /\ status' = st
    /\ lastOp' = [op |-> op, ret |-> ret, hashes |-> {}, block |-> 0, fail |-> "none"]
    /\ io' = [st |-> st, input |-> input, op |-> op, out |-> count, bytes |-> <<>>]
    /\ UNCHANGED <<tables, confirmed, txs, account, best_chain, opts, next_hash, forks, conflicted,
                   wallet>>

PowUpdateByNewBlock ==
    /\ status = "ok"
    /\ PowLeave("update_by_new_block", <<MAX_BITS>>, "ok", [gen EXCEPT !.bits = MAX_BITS], "Ok", 0)

PowGenerate ==
    /\ status = "ok"
    /\ \E found \in BOOLEAN, real_span \in Durations :
        Let(generate(gen, found, real_span), LAMBDA r :
            PowLeave("generate", <<found, real_span>>, r.st, r.worker, r.ret, r.count))

PowNext == PowUpdateByNewBlock \/ PowGenerate

SpecPow == PowInit /\ [][PowNext]_vars

\* ---- the callers of AccountBuilder ----
MaxAccounts == 75

WalletLeave(op, r) ==
    /\ wallet' = [ret |-> r.ret, rows |-> r.rows, accounts |-> r.accounts, root_key |-> r.root_key, op |-> op]
    /\ UNCHANGED <<tables, confirmed, txs, account, best_chain, opts, next_hash, forks, status, lastOp,
                   conflicted, gen, io>>

WalletGetNewAccount ==
    /\ wallet.ret # "panic"
    /\ wallet.root_key => Len(wallet.accounts) + PRE_FETCH_ACCOUNT_LEN <= MaxAccounts
    /\ WalletLeave("get_new_account", get_new_account(wallet))

\* update_all_account_status, as update_by_tx and finalize_block call it
WalletUpdateAll ==
    /\ wallet.ret # "panic"
    /\ Let(WriteChanged(wallet.accounts, wallet.rows), LAMBDA w :
           WalletLeave("update_all_account_status",
                       [ret |-> "Ok", rows |-> w.rows, accounts |-> w.accounts, root_key |-> wallet.root_key]))

\* a restart of the node, with or without the root secret key
WalletRestore ==
    /\ wallet.ret # "panic"
    /\ \E sk \in BOOLEAN :
        Let(restore_from_tables(wallet.rows, sk), LAMBDA b :
            WalletLeave("restore_from_tables",
                        [ret |-> "Ok", rows |-> b.rows, accounts |-> b.accounts, root_key |-> b.root_key]))

WalletNext == WalletGetNewAccount \/ WalletUpdateAll \/ WalletRestore
SpecWallet == PoolInit /\ [][WalletNext]_vars

\* ------------------------------------------------------------------------
\* Properties
\* ------------------------------------------------------------------------
\* the live entries of v that are among the hashes S or depend, directly or
\* through other live entries, on one of them
RECURSIVE Dependents(_, _)
Dependents(v, S) ==
    IF \E e \in Range(v) : is_some(e) /\ e.hash \notin S /\ e.depend_hashs \cap S # {}
    THEN Dependents(v, S \cup {e.hash : e \in {x \in Range(v) : is_some(x) /\ x.depend_hashs \cap S # {}}})
    ELSE S

\* the non-coinbase transaction hashes of the blocks of Confirmed's best chain
BestChainTxs ==
    UNION {Range(Tail(get_block_ref(confirmed, h).txs_hash)) : h \in Range(get_best_chain(confirmed))}

\* the blocks Tables holds with a block index entry, and their transactions
FinalizedBlocks ==
    {b \in tables.block : [height |-> b.height, hash |-> b.hash] \in tables.block_index}
FinalizedTxs == UNION {BlockTxs(b) : b \in FinalizedBlocks}

\* the blocks the step finalizes
NewlyFinalized ==
    {b \in tables'.block :
        [height |-> b.height, hash |-> b.hash] \in tables'.block_index \ tables.block_index}

\* tx has an input-cache or output address of the listened account
Touches(acc, tx) ==
    \/ \E i \in 1..Len(tx.inputs_cache) : is_account_address(acc, tx.inputs_cache[i].addr)
    \/ \E i \in 1..Len(tx.outputs) : is_account_address(acc, tx.outputs[i].addr)

Listed(t, blockhash, txhash) ==
    \E x \in t.tx_index : x.blockhash = blockhash /\ txhash \in Range(x.txs)

C2_NoTxConfirmedAndUnconfirmed ==
    lastOp.ret \in {"Ok", "Err"} => LiveHashes(txs) \cap BestChainTxs = {}

\* C3: when push_new_block returns Ok, no transaction that was in the mempool
\* and shares an input with a transaction of a block that joined the best
\* chain in the call is still in Unconfirmed.
C3_DoubleSpenderRemoved ==
    [][(lastOp'.op = "push_new_block" /\ lastOp'.ret = "Ok")
        => \A c \in conflicted' \ conflicted : c.tx \notin LiveHashes(txs')]_vars

\* C4: a push_new_block that returns an error leaves Tables, Confirmed,
\* Unconfirmed, Account and the cached best_chain as they were.
C4_PushNewBlockErrRollsBack ==
    [][(lastOp'.op = "push_new_block" /\ lastOp'.ret = "Err")
        => UNCHANGED <<tables, confirmed, txs, account, best_chain>>]_vars

\* C5: a push_unconfirmed that returns an error leaves the mempool, Tables
\* (tx_cache, temp_movement) and the account state as they were.
C5_PushUnconfirmedErrRollsBack ==
    [][(lastOp'.op = "push_unconfirmed" /\ lastOp'.ret = "Err")
        => UNCHANGED <<txs, tables, account>>]_vars

\* C6: push_unconfirmed(tx) returns an error, and evicts nothing, when tx is
\* already in the mempool or a mempool transaction spends one of its inputs
\* (the call has no way to request an eviction).
C6_RejectsPresentAndDuplicateInput ==
    [][\A tx \in ChainTxs :
        (/\ lastOp'.op = "push_unconfirmed"
         /\ lastOp'.hashes = {tx.hash}
         /\ \/ have_the_tx(txs, tx.hash)
            \/ \E m \in LiveHashes(txs) : SharesInput(TxOf(m), tx))
        => (lastOp'.ret = "Err" /\ txs' = txs)]_vars

C8_ListedIffTxIndexOrAccount ==
    [][\A b \in NewlyFinalized : \A tx \in BlockTxs(b) :
        /\ tx.hash \notin tables'.tx_cache
        /\ Listed(tables', b.hash, tx.hash) <=> (opts.tx_index \/ Touches(account, tx))]_vars

\* C9: once the block whose transaction a mempool transaction double-spent
\* is finalized, that mempool transaction is in no tier: not in Unconfirmed,
\* not in a best-chain block of Confirmed, not in tx_cache and not finalized.
C9_DoubleSpenderGoneAfterFinalization ==
    \A c \in conflicted :
        (\E b \in FinalizedBlocks : b.hash = c.block)
        => (/\ c.tx \notin LiveHashes(txs)
            /\ c.tx \notin BestChainTxs
            /\ c.tx \notin tables.tx_cache
            /\ c.tx \notin {t.hash : t \in FinalizedTxs})

\* C10: remove_many(hashes) returns, and the mempool is then the old one
\* less the given transactions and their transitive dependents.
C10_RemoveManyWithDependents ==
    [][lastOp'.op = "remove_many"
        => (/\ status' = "ok"
            /\ LiveHashes(txs') = LiveHashes(txs) \ Dependents(txs, lastOp'.hashes))]_vars

\* the live entries of v that spend one of the given inputs
SpendersOf(v, inputs) ==
    {m \in LiveHashes(v) : Range(TxOf(m).inputs) \cap Range(inputs) # {}}

\* C11: remove_by_duplicate_inputs(inputs) returns, and the mempool is then
\* the old one less the transactions that spend one of the given inputs and
\* their transitive dependents; every other transaction is still there.
C11_DuplicateInputsRemoved ==
    [][\A tx \in TxUniverse :
        (lastOp'.op = "remove_by_duplicate_inputs" /\ lastOp'.hashes = {tx.hash})
        => (/\ status' = "ok"
            /\ LiveHashes(txs') = LiveHashes(txs) \ Dependents(txs, SpendersOf(txs, tx.inputs)))]_vars

\* the live entries of v whose deadline is before now
ExpiredOf(v, now) == {e.hash : e \in {x \in Range(v) : is_some(x) /\ x.deadline < now}}

\* C12: remove_expired_txs(now) returns, removes exactly the transactions
\* whose deadline < now and their transitive dependents, and leaves the
\* relative order of the others unchanged.
C12_ExpiredRemoved ==
    [][\A now \in 0..MaxDeadline :
        (lastOp'.op = "remove_expired_txs" /\ lastOp'.hashes = {now})
        => (/\ status' = "ok"
            /\ Filtered(txs') =
                 SelectSeq(Filtered(txs),
                           LAMBDA e : e.hash \notin Dependents(txs, ExpiredOf(txs, now))))]_vars

\* C13: a push of a transaction c that depends on no mempool transaction,
\* has no dependent there and has a gas_price above every mempool
\* transaction returns, places c at position 0 and leaves the order of the
\* others unchanged.
C13_HighestPriceFirst ==
    [][\A c \in TxUniverse :
        (/\ lastOp'.op = "push_new_tx"
         /\ lastOp'.hashes = {c.hash}
         /\ \A e \in Range(Filtered(txs)) :
              /\ e.hash # c.hash
              /\ e.hash \notin DependHashs(c)
              /\ c.hash \notin e.depend_hashs
              /\ e.price < c.gas_price)
        => (/\ status' = "ok"
            /\ Filtered(txs') = <<Entry(c)>> \o Filtered(txs))]_vars

\* the non-coinbase transaction hashes of every block Confirmed holds
ConfirmedTierTxs ==
    UNION {Range(Tail(get_block_ref(confirmed, h).txs_hash)) : h \in DOMAIN confirmed.blocks}

\* the entries of the hashes S, in key order
EntriesOf(S) == [i \in 1..Cardinality(S) |-> Entry(TxOf(SeqOfSet(S)[i]))]

\* C14: Chain::new on an existing database returns, and the mempool is then
\* the tx_cache transactions that no block of Confirmed lists, less the
\* expired ones and their dependents.
C14_RestartRebuildsMempool ==
    [][\A deadline \in {0, MaxDeadline} :
        (lastOp'.op = "new" /\ lastOp'.hashes = {deadline})
        => (/\ lastOp'.ret = "Ok"
            /\ LiveHashes(txs') =
                 (tables.tx_cache \ ConfirmedTierTxs)
                 \ Dependents(EntriesOf(tables.tx_cache \ ConfirmedTierTxs),
                              ExpiredOf(EntriesOf(tables.tx_cache \ ConfirmedTierTxs), deadline)))]_vars

\* every worker of the pool: working set, reserve and workers in flight
PoolWorkers ==
    Range(gen.threads) \cup Range(gen.reserve)
    \cup UNION {Range(gen.futures[k]) : k \in 1..Len(gen.futures)}

\* C15: the pool (working set, reserve and workers in flight) never holds
\* two workers with the same BlockFlag.
C15_OneWorkerPerFlag ==
    \A a \in PoolWorkers : \A b \in PoolWorkers : a.flag = b.flag => a.id = b.id

\* C16: while a task is outstanding a pool update does not change the
\* working set: a worker pushed then is held in the reserve, and a worker
\* removed by remove_worker(flag) is nowhere in the pool afterwards.
C16_UpdatesOnlyWhenIdle ==
    [][/\ (Len(gen.futures) > 0 /\ lastOp'.op = "push_worker" /\ lastOp'.ret = "Ok")
            => (gen'.threads = gen.threads /\ Len(gen'.reserve) = Len(gen.reserve) + 1)
       /\ \A flag \in GenFlags :
            (lastOp'.op = "remove_worker" /\ lastOp'.hashes = {flag})
            => \A w \in Range(gen'.threads) \cup Range(gen'.reserve)
                        \cup UNION {Range(gen'.futures[k]) : k \in 1..Len(gen'.futures)} :
                   w.flag # flag]_vars

\* C17: a TxBody that is serialized and parsed again is the body it was, and
\* a byte string that TxBody::from_bytes accepts is the serialization of the
\* body it yields (so the hash, taken over to_bytes, is that of the bytes).
C17_BodyRoundTrip ==
    /\ io.op = "encode_decode" => io.st = "ok" /\ io.out = io.input
    /\ io.op = "decode_encode" /\ io.st = "ok" => io.bytes = io.input

\* C18: no decoder aborts on the bytes it is given: a header that is not 80
\* bytes long, a malformed tx body, a truncated or inconsistent pickle are
\* all answered with an error value.
C18_MalformedRejected == io.st # "panic"

\* the fee of a transaction: what its inputs hold minus what its outputs pay
FeeOf(tx) == SumAmount(tx.inputs_cache) - SumAmount(tx.outputs)

\* C19: push_unconfirmed of a transaction whose fee is not gas_amount *
\* gas_price returns an error, does not abort, and leaves the mempool and
\* tx_cache as they were (calls cut short by a storage error aside).
C19_FeeMismatchRejected ==
    [][\A tx \in UnconfirmedTxs :
          /\ FeeOf(tx) # tx.gas_amount * tx.gas_price
          /\ lastOp'.op = "push_unconfirmed" /\ lastOp'.hashes = {tx.hash} /\ lastOp'.fail = "none"
          => /\ lastOp'.ret = "Err"
             /\ txs' = txs
             /\ tables'.tx_cache = tables.tx_cache]_vars

\* C20: without the root secret key get_new_account returns an error and
\* leaves the accounts and their visible flags as they were.
C20_NoNewAccountWithoutKey ==
    [][wallet'.op = "get_new_account" /\ ~wallet.root_key
       => wallet'.ret = "Err" /\ wallet'.accounts = wallet.accounts]_vars

\* C20 (amended): without the root secret key get_new_account derives no
\* account: it returns an error and changes nothing when no account is
\* hidden, and otherwise returns the first hidden account, made visible,
\* the accounts being the same ones otherwise.
C20_NoDerivationWithoutKey ==
    [][wallet'.op = "get_new_account" /\ ~wallet.root_key
       => IF \A i \in 1..Len(wallet.accounts) : wallet.accounts[i].visible
          THEN wallet'.ret = "Err" /\ wallet'.accounts = wallet.accounts /\ wallet'.rows = wallet.rows
          ELSE /\ wallet'.ret = "Ok"
               /\ Len(wallet'.accounts) = Len(wallet.accounts)
               /\ \A i \in 1..Len(wallet.accounts) :
                    /\ wallet'.accounts[i].account_id = wallet.accounts[i].account_id
                    /\ wallet'.accounts[i].visible =
                         (wallet.accounts[i].visible \/ \A j \in 1..(i - 1) : wallet.accounts[j].visible)
               /\ {r.account_id : r \in wallet'.rows} = {r.account_id : r \in wallet.rows}]_vars

\* get_new_account without the key has answered with the error
C20_Witness == wallet.op = "get_new_account" /\ ~wallet.root_key /\ wallet.ret = "Err"

RECURSIVE SumDeltas(_, _, _)
\* the sum of Pick(delta) over the movements of the transactions hashes[i..]
SumDeltas(hashes, Pick(_), i) ==
    IF i > Len(hashes) THEN 0
    ELSE Pick(DeltaOf(tables, hashes[i])) + SumDeltas(hashes, Pick, i + 1)

RECURSIVE TxsOfBlocks(_)
TxsOfBlocks(blocks) ==
    IF Len(blocks) = 0 THEN <<>>
    ELSE get_block_ref(confirmed, Head(blocks)).txs_hash \o TxsOfBlocks(Tail(blocks))

\* depth of a best-chain block: best height - block height
DepthOf(hash) == HeightOf(TipHash) - HeightOf(hash)
MempoolHashes == [i \in 1..Len(Filtered(txs)) |-> Filtered(txs)[i].hash]
Outgoing(delta) == IF delta < 0 THEN delta ELSE 0
Incoming(delta) == IF delta >= 0 THEN delta ELSE 0
AnyDelta(delta) == delta

\* the balance the query is to return for `confirm`
BalanceAt(confirm) ==
    [confirmed |->
         account.balance
         + SumDeltas(TxsOfBlocks(SelectSeq(best_chain, LAMBDA h : DepthOf(h) >= confirm)), AnyDelta, 1)
         + SumDeltas(TxsOfBlocks(SelectSeq(best_chain, LAMBDA h : DepthOf(h) < confirm)), Outgoing, 1)
         + SumDeltas(MempoolHashes, Outgoing, 1),
     unconfirmed |->
         SumDeltas(TxsOfBlocks(SelectSeq(best_chain, LAMBDA h : DepthOf(h) < confirm)), Incoming, 1)
         + SumDeltas(MempoolHashes, Incoming, 1)]

\* C21: on a chain with a best block, get_account_balance(account, confirm)
\* returns the persisted balance plus every delta of the best-chain blocks
\* of depth >= confirm plus the outgoing deltas of the shallower blocks and
\* of the mempool as confirmed, and the incoming deltas of the shallower
\* blocks and of the mempool as unconfirmed, whatever confirm is.
C21_BalanceSplitByDepth ==
    io.op = "get_account_balance" /\ Len(best_chain) > 0
    => io.st = "ok" /\ io.out = BalanceAt(io.input)

\* a <= b for two U256
RECURSIVE U256Leq(_, _, _)
U256Leq(a, b, i) == IF i = 0 THEN TRUE ELSE IF a[i] # b[i] THEN a[i] < b[i] ELSE U256Leq(a, b, i - 1)

\* the nonzero bytes of t lie within n consecutive bytes
SpansBytes(t, n) == \A i, j \in 1..U256Bytes : t[i] # 0 /\ t[j] # 0 => j - i < n
TopByte(t) == t[SetMax({i \in 1..U256Bytes : t[i] # 0})]

\* C22: for every target t, bits_to_target(target_to_bits(t)) succeeds and is
\* at most t, and it is t whenever t = m * 256^k with m < 2^24.
C22_TargetRoundTrip24 ==
    io.op = "target_to_bits"
    => /\ io.st = "ok" /\ U256Leq(io.out, io.input, U256Bytes)
       /\ SpansBytes(io.input, 3) => io.out = io.input

\* C22 (amended): the same with m < 2^23, the width of the mantissa of bits;
\* the exponent of target_to_bits(t) is within 3..33.
C22_TargetRoundTrip23 ==
    io.op = "target_to_bits"
    => /\ io.st = "ok" /\ U256Leq(io.out, io.input, U256Bytes)
       /\ io.bytes \div 16777216 \in 3..33
       /\ SpansBytes(io.input, 2) \/ (SpansBytes(io.input, 3) /\ TopByte(io.input) < 128)
          => io.out = io.input

\* a target of three significant bytes has come back as itself
C22_Witness ==
    /\ io.op = "target_to_bits" /\ io.st = "ok" /\ io.out = io.input
    /\ ~SpansBytes(io.input, 2) /\ io.input[U256Bytes] # 0

ExponentOf(bits) == (bits \div 16777216) % 256
MantissaOf(bits) == bits % (MantissaLimit + 1)
ByteAt(s, i) == IF i <= Len(s) THEN s[i] ELSE 0
SameNumber(a, b) == \A i \in 1..(U256Bytes + 3) : ByteAt(a, i) = ByteAt(b, i)
Normalized(bits) ==
    /\ ExponentOf(bits) \in 3..33 /\ (bits \div (MantissaLimit + 1)) % 2 = 0
    /\ MantissaOf(bits) >= 32768 \/ ExponentOf(bits) = 3

\* C23: bits_to_target(bits) is an error exactly when the exponent is outside
\* 3..33 and otherwise mantissa * 256^(exponent - 3); normalized bits come
\* back from target_to_bits(bits_to_target(bits)).
C23_BitsRoundTrip ==
    io.op = "bits_to_target"
    => /\ (io.st = "err") = (ExponentOf(io.input) \notin 3..33)
       /\ ExponentOf(io.input) \in 3..33
          => io.st = "ok" /\ SameNumber(io.out, Product(MantissaOf(io.input), ExponentOf(io.input)))
       /\ Normalized(io.input) => io.bytes = io.input

\* == on Block
BlockEq(a, b) ==
    /\ a.work_hash = b.work_hash /\ a.height = b.height /\ a.flag = b.flag /\ f32_eq(a.bias, b.bias)
    /\ a.header = b.header /\ a.txs_hash = b.txs_hash

\* the block and the transactions given come back from both decoders
RoundTrips ==
    /\ io.st = "ok"
    /\ BlockEq(io.out[1][1], io.input[1])
    /\ io.out[1][2][1] = io.input[2][1]
    /\ io.out[1][2][2] = [i \in 1..(Len(io.input[2]) - 1) |-> convert_recoded_tx(io.input[2][i + 1])]
    /\ BlockEq(io.out[2], io.input[1])

\* the hashes of the block and of the transactions are those of the bodies,
\* and the bias is a number
Consistent(block, list) ==
    /\ ~IsNaN(block.bias)
    /\ \A i \in 1..Len(list) : block.txs_hash[i] = body_hash(list[i].body) /\ list[i].hash = body_hash(list[i].body)

\* C24: for every block and every non-empty list txs with as many entries as
\* block.txs_hash, unpickle_full_block(pickle_full_block(block, txs)) is an
\* equal block, the coinbase with its input cache and the other transactions
\* in order as body plus signatures; unpickle_block gives an equal block.
C24_PickleRoundTrip == io.op = "pickle_unpickle" => RoundTrips

\* C24 (amended): the same for a block whose txs_hash are the hashes of the
\* bodies of txs, whose bias is not NaN, and transactions whose hash is the
\* hash of their body.
C24_ConsistentRoundTrip ==
    io.op = "pickle_unpickle" /\ Consistent(io.input[1], io.input[2]) => RoundTrips

\* a block with a signed transaction and an input cache has come back
C24_Witness ==
    /\ io.op = "pickle_unpickle" /\ Consistent(io.input[1], io.input[2]) /\ io.st = "ok"
    /\ Len(io.out[1][2][2]) = 1 /\ Len(io.out[1][2][2][1].signature) = 2
    /\ Len(io.out[1][2][1].inputs_cache) = 1

\* the positions, among the live entries, of the dependencies and of the
\* dependents of an entry
DependencyPositions(e) == {i - 1 : i \in {j \in 1..len(txs) : Filtered(txs)[j].hash \in e.depend_hashs}}
DependentPositions(e) == {i - 1 : i \in {j \in 1..len(txs) : e.hash \in Filtered(txs)[j].depend_hashs}}
DepIndex(e) == IF DependencyPositions(e) = {} THEN NoneIdx ELSE SetMax(DependencyPositions(e))
ReqIndex(e) == IF DependentPositions(e) = {} THEN len(txs) ELSE SetMin(DependentPositions(e))
\* the index the placement rule names
RuleIndex(e) ==
    Let({i \in (DepIndex(e) + 1)..ReqIndex(e) : i < len(txs) /\ Beats(e, At(Filtered(txs), i))}, LAMBDA found :
        IF found = {} THEN len(txs) ELSE SetMax(found))

\* C25: when no dependent of the new tx stands at or before its highest
\* dependency, push_new_tx returns with the new tx at the highest index of
\* (dep_index, req_index] where it beats the tx standing there, and at the
\* end of the list when there is no such index.
C25_PlacedByRule ==
    \A tx \in TxUniverse :
        status = "ok" /\ ~exist(txs, tx.hash) /\ DepIndex(Entry(tx)) < ReqIndex(Entry(tx))
        => /\ push_new_tx(txs, tx).st = "ok"
           /\ push_new_tx(txs, tx).ret = RuleIndex(Entry(tx))
           /\ Filtered(push_new_tx(txs, tx).txs) = InsertAt(Filtered(txs), RuleIndex(Entry(tx)), Entry(tx))

C27_FoundResultMadeBlock ==
    lastOp.op = "future_result" /\ lastOp.hashes # {}
    => lastOp.ret = "Some" /\ lastOp.fail # "merkleroot" /\ lastOp.block = gen.unconfirmed

\* the future that future_result was given: the one that has left the list
Joined(k) ==
    /\ k \in 1..Len(gen.futures)
    /\ gen'.futures = SubSeq(gen.futures, 1, k - 1) \o SubSeq(gen.futures, k + 1, Len(gen.futures))

\* C28: future_result joins the threads of the future and returns: None
\* when no result was found, the block of the first found result otherwise;
\* every worker of the future is back in the pool once, after the workers
\* the pool held.
C28_WorkersReturnedOnce ==
    [][lastOp'.op = "future_result"
        => /\ status' = "ok"
           /\ lastOp'.ret = IF lastOp'.hashes = {} THEN "None" ELSE "Some"
           /\ \E k \in 1..Len(gen.futures) : Joined(k) /\ gen'.threads = gen.threads \o gen.futures[k]]_vars

\* ---- calc_next_bits ----
\* the blocks of the flavor among the first MAX_SEARCH_BLOCKS blocks, tip first
SameFlavor(blocks, flag) ==
    SelectSeq(SubSeq(blocks, 1, IF Len(blocks) < MAX_SEARCH_BLOCKS THEN Len(blocks) ELSE MAX_SEARCH_BLOCKS),
              LAMBDA b : b[1] = flag)

\* the newest n of them, oldest first
Collected(blocks, flag, n) ==
    Reverse(SubSeq(SameFlavor(blocks, flag), 1,
                   IF Len(SameFlavor(blocks, flag)) < n THEN Len(SameFlavor(blocks, flag)) ELSE n))

TimesOf(headers) == [i \in 1..Len(headers) |-> headers[i][2]]
TargetsOf(headers) == [i \in 1..Len(headers) |-> bits_to_target(headers[i][3], TRUE).v]

\* C29: calc_next_bits returns MAX_BITS when fewer than 2 ancestors of the
\* flavor lie within the search window, the LWMA-2 value with N reduced to
\* the number collected minus one when at least 2 but fewer than N + 1 do,
\* and never bits of a target above bits_to_target(MAX_BITS)
C29_NextBitsByAncestors ==
    io.op = "calc_next_bits" =>
        LET blocks == Expand(io.input)
            found == Len(SameFlavor(blocks, "YesPow"))
            headers == Collected(blocks, "YesPow", ParamN + 1)
        IN  /\ found < 2 => io.st = "ok" /\ io.out[1] = MAX_BITS
            /\ 2 <= found /\ found < ParamN + 1 =>
                /\ io.st = "ok"
                /\ \E overflow_checks \in BOOLEAN, overflow_panics \in BOOLEAN :
                    io.out = Lwma(TimesOf(headers), TargetsOf(headers), found - 1, ParamK,
                                  overflow_checks, overflow_panics).v
            /\ io.st = "ok" => ~BigLess(MAX_TARGET, bits_to_target(io.out[1], TRUE).v, U256Bytes)

RECURSIVE ClampedT(_, _)
\* the sum of j * max(0, ts[j + 1] - ts[j]) over j in 1..n
ClampedT(timestamps, n) ==
    IF n = 0 THEN 0
    ELSE ClampedT(timestamps, n - 1)
         + n * (IF timestamps[n + 1] > timestamps[n] THEN timestamps[n + 1] - timestamps[n] ELSE 0)

\* C30: when calc_next_bits weights the solve times, each is clamped below
\* at 0, so that a decreasing pair of timestamps adds 0 to t without a wrap
\* and without an abort, and t is raised to at least N * K / 3
C30_SolveTimeClamped ==
    io.op = "calc_next_bits" /\ Len(SameFlavor(Expand(io.input), "YesPow")) > ParamN + 1
        /\ Len(Expand(io.input)) < MAX_CACHE_SIZE =>
        LET expected == ClampedT(TimesOf(Collected(Expand(io.input), "YesPow", ParamN + 1)), ParamN)
        IN  /\ io.st = "ok"
            /\ io.out[2] = to_le_bytes(IF expected < (ParamN * ParamK) \div 3
                                       THEN (ParamN * ParamK) \div 3 ELSE expected, U32Bytes)

\* ---- calc_next_bias ----
\* C31: the others_best that calc_next_bias averages has no entry of the
\* flavor asked for: the newest target of that flavor does not enter the bias
C31_OthersBestExcludesFlag ==
    io.op = "calc_next_bias" => ~HasFlag(io.out[2], io.input[2])

\* ---- get_header_ref ----
\* C39: get_header_ref returns the meta-header of every block that Tables
\* holds, whatever the occupancy of the cache: the eviction at the limit
\* never removes the entry that is being returned
C39_EvictionKeepsReturned ==
    io.op = "get_header_ref" /\ io.input[2] >= 0 => io.st = "ok" /\ io.input[2] \in io.out

\* ---- PosWorker.update_by_new_block ----
\* what the worker is to keep: coin 0, address version 0, at least 10^8,
\* produced at a height of at most new_height + 1 - MATURE_HEIGHT
Stakeable(output, new_height) ==
    /\ output[1] = 0 /\ output[2] = 0 /\ output[3] >= MinStake
    /\ output[4][1] = "some" /\ output[4][2] <= new_height + 1 - MATURE_HEIGHT

\* C32: update_by_new_block keeps an unspent output as a staking candidate
\* exactly when coin_id = 0, address version = 0, amount >= 10^8 and its tx
\* is confirmed at a height h <= new_block.height + 1 - MATURE_HEIGHT
C32_MatureOutputsKept ==
    io.op = "update_by_new_block" =>
        \A i \in 1..Len(io.input[1]) :
            (\E k \in 1..Len(io.out[1]) : io.out[1][k][1] = i) <=> Stakeable(io.input[1][i], io.input[2])

\* ---- the blocks push_new_block reverts ----
\* the blocks that push_new_block reverts when the caller hands in a block
\* on the parent with the score
RevertedBy(parent, score) ==
    Let(ConfirmedPush(confirmed, NewBlock(parent, score, <<>>)), LAMBDA cp :
        [i \in 1..Len(cp.revert) |-> get_block_ref(cp.confirmed, cp.revert[i])])

\* C33: whatever block is pushed, competing blocks on the genesis
\* predecessor hash included, no reverted block is the Genesis block
C33_GenesisNeverReverted ==
    status = "ok" /\ next_hash <= MaxBlocks =>
        \A parent \in Parents, score \in {1, 2} :
            (parent = TipHash => score = 1) =>
                \A i \in 1..Len(RevertedBy(parent, score)) : RevertedBy(parent, score)[i].flag # "Genesis"

\* ---- the gap lists of an Account ----
ListLen(acc, addr) == IF addr.inner THEN acc.listen_inner ELSE acc.listen_outer

\* C34: each gap list holds at least 25 addresses and at least i + 25 for
\* every address at its index i that an accepted tx has shown; unused_index
\* is above the index of every such outer address and at most the length
\* of listen_outer
C34_GapListsCoverSeen ==
    /\ account.listen_inner >= PRE_FETCH_ADDR_LEN
    /\ account.listen_outer >= PRE_FETCH_ADDR_LEN
    /\ account.unused_index <= account.listen_outer
    /\ \A addr \in Seen :
        addr.acct = 0 /\ addr.idx < ListLen(account, addr) =>
            /\ ListLen(account, addr) >= addr.idx + PRE_FETCH_ADDR_LEN
            /\ ~addr.inner => account.unused_index > addr.idx

\* ---- the inputs the mempool transactions spend ----
MempoolTx(h) == CHOOSE t \in TxUniverse \cup UnconfirmedTxs : t.hash = h

\* the blocks of Confirmed that are off the best chain
ForkBlocks == DOMAIN confirmed.blocks \ Range(best_chain)

SpentInMempool(input, except_hash) ==
    \E h \in LiveHashes(txs) \ {except_hash} : input \in Range(MempoolTx(h).inputs)

\* C37: is_unused_input returns Some(false) only if a mempool transaction
\* other than except_hash has the (tx-hash, vout) pair among its inputs
C37_UsedOnlyByExactInput ==
    (io.op = "is_unused_input" /\ io.st = "ok" /\ io.out = "SomeFalse")
        => SpentInMempool(MkInput(io.input[1], io.input[2]), io.input[3])

\* C36: every operation of Unconfirmed returns
C36_OperationsTerminate ==
    lastOp.op \in {"push_new_tx", "remove_many", "remove_by_duplicate_inputs", "remove_expired_txs",
                   "get_size_limit_list", "get_size", "input_already_used", "find_output_of_input",
                   "is_unused_input"}
        => lastOp.ret # "diverge"

\* ---- Txs against the list of its live entries ----
HashesOf(list) == [i \in 1..Len(list) |-> list[i].hash]
LiveList == HashesOf(Filtered(txs))

\* C38: every operation of Txs is the operation of the plain list of the
\* live entries: push appends, insert(index, e) puts e before the entry at
\* live index `index`, remove(index) takes that entry out, position is the
\* index in the list, an iteration yields the list (reversed when run
\* backwards), and none of them aborts inside the bounds of the list
C38_TxsBehavesAsList ==
    [][/\ io'.op = "push" => LiveList' = Append(LiveList, io'.input[1])
       /\ (io'.op = "insert" /\ io'.input[1] < Len(LiveList))
            => io'.st = "ok" /\ LiveList' = InsertAt(LiveList, io'.input[1], io'.input[2])
       /\ (io'.op = "remove" /\ io'.input[1] < Len(LiveList))
            => /\ io'.st = "ok"
               /\ io'.out = <<At(LiveList, io'.input[1])>>
               /\ LiveList' = SubSeq(LiveList, 1, io'.input[1])
                                \o SubSeq(LiveList, io'.input[1] + 2, Len(LiveList))
       /\ io'.op = "position"
            => \A i \in 0..(Len(LiveList) - 1) : At(LiveList, i) = io'.input[1] => io'.out = <<i>>
       /\ io'.op = "iterate" => io'.st = "ok" /\ io'.out = LiveList
       /\ io'.op = "iterate_back" => io'.st = "ok" /\ io'.out = Reverse(LiveList)]_vars

\* ---- PowWorker ----
\* C40: on a worker that has its bits, generate returns a PoW result or
\* NotFoundWork whatever the recorded durations are, the span queue holds at
\* most 100 entries, and the count of a tick is 100 while no more than 10
\* spans are recorded and at least 10 afterwards
C40_GenerateNeverAsserts ==
    /\ Len(gen.span) <= SpanLimit
    /\ (io.op = "generate" /\ gen.bits # 0)
        => /\ lastOp.ret \in {"PoW", "NotFoundWork"}
           /\ io.out >= MinCount
           /\ (Len(gen.span) <= SpanStart => io.out = DefaultCount)

====
